---------------------------- MODULE Spec2Model ----------------------------
(***************************************************************************)
(* A model of the grant filtering pipeline of leeyy0/grantscraper:         *)
(*   - the recursive crawler (app/services/deep_scraper.py),               *)
(*   - the retrying Gemini calls (app/services/gemini_service.py),         *)
(*   - the orchestrator run_pipeline (app/services/pipeline_service.py),   *)
(*   - the result store and the status table it writes.                    *)
(***************************************************************************)
EXTENDS Integers, Sequences, FiniteSets, TLC

(***************************************************************************)
(* Bounds of the model.                                                    *)
(***************************************************************************)
MaxDepthBound == 2
MaxLinks == 2
MaxGraphLinks == 3
MaxStack == 6
NoDepthLimit == 99
MaxGrants == 2
MaxRuns == 1
MaxStreamGrants == 1
MaxTasks == 2
MaxTaskGrants == 2
MaxJobLinks == 3

(***************************************************************************)
(* Constants of the program.                                               *)
(***************************************************************************)
MAX_RETRIES == 7
DefaultRating == 50
RATING_THRESHOLD == 61
LegacyThreshold == 50
PipelineMaxDepth == 2
NoneInt == -1
MinRating == 0
MaxRating == 100

NoneVal == "None"

(***************************************************************************)
(* URLs.  A URL is what urlparse splits it into: scheme, netloc and path.  *)
(* The netloc is a sequence of labels, so that one host can be a proper    *)
(* prefix of another (a look-alike host).                                  *)
(***************************************************************************)
Url(s, h, p) == [scheme |-> s, netloc |-> h, path |-> p]

SiteHost == <<"grants", "gov">>
LookalikeHost == <<"grants", "gov", "evil">>

SiteUrls == {Url("https", SiteHost, p) : p \in {"p1", "p2", "p3"}}
ForeignUrls == {Url("https", LookalikeHost, "p1"), Url("http", SiteHost, "p1")}
MailUrls == {Url("mailto", <<>>, "p1")}
Urls == SiteUrls \cup ForeignUrls \cup MailUrls

\* urlparse(url); f"{parsed.scheme}://{parsed.netloc}"
DomainOf(url) == [scheme |-> url.scheme, netloc |-> url.netloc]

\* link_url.startswith(("http://", "https://"))
IsHttp(url) == url.scheme \in {"http", "https"}

\* link_domain != base_domain is what skips a link: equality of scheme://netloc
SameDomain(link_url, base) == DomainOf(link_url) = base

(***************************************************************************)
(* Lists of links without repetition, as extract_page_content_and_links    *)
(* returns them after removing duplicates.                                 *)
(***************************************************************************)
SeqsUpTo(S, n) == UNION {[1..k -> S] : k \in 0..n}
NoDup(s) == \A i, j \in 1..Len(s) : s[i] = s[j] => i = j
LinkLists == {s \in SeqsUpTo(Urls, MaxLinks) : NoDup(s)}

VARIABLES
    cpc,            \* where the crawl is
    mode,           \* "deep_scrape_grants" or "scrape_url_recursive" (called directly)
    grant_details,  \* deep_scrape_grants: the input list
    grant_i,        \* deep_scrape_grants: index of the grant of the outer loop
    link_i,         \* deep_scrape_grants: index of the link of the inner loop
    deep_content,   \* deep_scrape_grants: nodes collected for the current grant
    scrape_results, \* deep_scrape_grants: results
    visited_urls,   \* the visited set shared by one grant's recursive calls
    base_domain,
    max_depth,
    stack,          \* frames of scrape_url_recursive that are in their for-loop
    call,           \* <<>> or <<[url, current_depth]>>: a call being entered
    web,            \* what the pages fetched so far turned out to hold
    fetch_log,      \* URLs given to page.goto for the current grant, in order
    crawl_result    \* <<>> or <<node>>: what a direct scrape_url_recursive returned

crawlVars == <<cpc, mode, grant_details, grant_i, link_i, deep_content,
               scrape_results, visited_urls, base_domain, max_depth, stack,
               call, web, fetch_log, crawl_result>>

VARIABLES
    db_initiatives,   \* ids of the rows of table initiatives
    db_organisations, \* ids of the initiatives whose organisation row exists
    db_grants,        \* the rows of table grants
    db_results,       \* the rows of table results
    pipeline_status,  \* _pipeline_status: initiative id -> <<>> or <<status>>
    pc,               \* where run_pipeline is ("idle": no run)
    initiative_id,    \* run_pipeline's arguments
    threshold,
    grants,           \* run_pipeline's locals
    idx,
    attempt,          \* the retry loop's attempt number
    prelim_rating,
    filtered_grants,
    deep_scraped,
    all_links,
    downloaded_files,
    gemini_result,
    runs,             \* runs started so far
    last_response,    \* what filter_grants answered last
    published,        \* history: the phases the latest run passed to update_status
    called,           \* history: the run has made an external call
    slept,            \* history: rate_limit_sleep has run since the last external call
    invocations,      \* history: external calls of the scoring operation under way
    validated,        \* history: the responses of that operation that validated
    failed_kinds,     \* history: the kinds of failure of its attempts so far
    p1_returned,      \* history: grant id -> what Phase 1 of this run returned for it
    p2_stored,        \* history: grant id -> the analysis Phase 2 of this run stored for it
    scored            \* history: grant id -> the ratings Phase 1 saved for it, in order

pipeVars == <<db_initiatives, db_organisations, db_grants, db_results,
              pipeline_status, pc, initiative_id, threshold, grants, idx, attempt,
              prelim_rating, filtered_grants, deep_scraped, all_links,
              downloaded_files, gemini_result, runs, last_response, published,
              called, slept, invocations, validated, failed_kinds,
              p1_returned, p2_stored, scored>>

\* One subscription to the status stream of an initiative (the local variables
\* of one event_generator), with what an observer of its events knows.
VARIABLES
    sub_pc,           \* "none": not opened; "polling": in its loop; "closed"
    last_status,      \* the status last emitted and kept, <<>> for None
    last_event,       \* history: the last event yielded, if any
    emitted,          \* history: whether the latest poll yielded an event
    emitted_snapshot, \* history: the status read at the latest poll that yielded
    poll_parity       \* history: flips with every poll

subVars == <<sub_pc, last_status, last_event, emitted, emitted_snapshot, poll_parity>>

\* The runs that filter_grants has started, each in a thread of its own, seen
\* at the statements that write what the threads share: the status dictionary
\* and table results.
VARIABLES
    tasks,            \* task id -> the run's arguments and where it is
    shared_status,    \* _pipeline_status, for the initiatives of those runs
    shared_results    \* table results, every write committed

taskVars == <<tasks, shared_status, shared_results>>

\* One call of download_files_from_links and one call of get_grant_details,
\* each seen at the iterations of its loop.
VARIABLES
    dff,              \* the frame of download_files_from_links
    ggd               \* the frame of get_grant_details

loopVars == <<dff, ggd>>

\* One refresh job (scrape_and_refresh_grants called with a job id) and the
\* entry of its job id in _refresh_status.
VARIABLES
    job,              \* the frame of scrape_and_refresh_grants; phases: history
    refresh_status    \* _refresh_status[job_id], <<>> when there is none

jobVars == <<job, refresh_status>>

vars == <<crawlVars, pipeVars, subVars, taskVars, loopVars, jobVars>>

(***************************************************************************)
(* deep_scraper.py                                                         *)
(***************************************************************************)
AlreadyVisitedError == "Already visited (cycle prevention)"

\* What extract_page_content_and_links can return for a URL: the page's text
\* and links with no error, or an error (a timeout, a failed navigation) with
\* whatever was extracted before it.
PageOutcomes ==
    {[content |-> "text", links |-> ls, error |-> NoneVal] : ls \in LinkLists}
    \cup {[content |-> NoneVal, links |-> <<>>, error |-> "Timeout"]}
    \cup {[content |-> "text", links |-> ls, error |-> "Error"] : ls \in LinkLists}

\* The number of links of the link graph seen so far: those of the grants'
\* own link lists and those of the pages fetched.
RECURSIVE SumLinks(_, _)
SumLinks(f, S) ==
    IF S = {} THEN 0
    ELSE LET x == CHOOSE y \in S : TRUE
         IN Len(f[x].links) + SumLinks(f, S \ {x})

GraphLinks(gd, w) == SumLinks(gd, DOMAIN gd) + SumLinks(w, DOMAIN w)

\* if url in visited_urls
NeverVisited(url, visited) == FALSE
AlreadyVisited(url, visited) == url \in visited

\* if current_depth >= max_depth
BeyondMaxDepth(current_depth, max_d) == current_depth > max_d
AtMaxDepth(current_depth, max_d) == current_depth >= max_d

\* The node returned for a URL met again.
VisitedNode(url) ==
    [url |-> url, content |-> NoneVal, links |-> <<>>,
     nested_content |-> <<>>, error |-> AlreadyVisitedError]

\* result = {"url", "content", "links", "nested_content": [], "error"}
ResultNode(url, page_data) ==
    [url |-> url, content |-> page_data.content, links |-> page_data.links,
     nested_content |-> <<>>, error |-> page_data.error]

NodeOfFrame(f) ==
    [url |-> f.url, content |-> f.content, links |-> f.links,
     nested_content |-> f.nested_content, error |-> f.error]

\* {**grant, "deep_content": deep_content}
WithOwnPage(grant, dc) ==
    [url |-> grant.url, button_text |-> grant.button_text,
     card_body_text |-> grant.card_body_text, links |-> grant.links,
     deep_content |-> <<VisitedNode(grant.url)>> \o dc]
WithDefaultButton(grant, dc) ==
    [url |-> grant.url, button_text |-> "Unknown",
     card_body_text |-> grant.card_body_text, links |-> grant.links,
     deep_content |-> dc]
WithDeepContent(grant, dc) ==
    [url |-> grant.url, button_text |-> grant.button_text,
     card_body_text |-> grant.card_body_text, links |-> grant.links,
     deep_content |-> dc]

Top(stk) == stk[Len(stk)]
Pop(stk) == SubSeq(stk, 1, Len(stk) - 1)

\* A return after which the caller gives up its loop when the node it got
\* back carries a timeout.
ReturnAborting(node, stk) ==
    /\ call' = <<>>
    /\ IF stk # <<>>
       THEN /\ stack' = [stk EXCEPT ![Len(stk)].nested_content = Append(@, node),
                                    ![Len(stk)].i =
                                        IF node.error = "Timeout"
                                        THEN Len(stk[Len(stk)].links) + 1 ELSE @]
            /\ cpc' = "loop"
            /\ UNCHANGED <<deep_content, crawl_result>>
       ELSE /\ stack' = stk
            /\ IF mode = "deep_scrape_grants"
               THEN /\ deep_content' = Append(deep_content, node)
                    /\ cpc' = "links"
                    /\ UNCHANGED crawl_result
               ELSE /\ crawl_result' = <<node>>
                    /\ cpc' = "done"
                    /\ UNCHANGED deep_content

\* A return of scrape_url_recursive with `node`, `stk` being the frames of its
\* callers: to the caller's nested_content.append, to deep_scrape_grants'
\* deep_content.append, or to whoever called scrape_url_recursive directly.
Return(node, stk) ==
    /\ call' = <<>>
    /\ IF stk # <<>>
       THEN /\ stack' = [stk EXCEPT ![Len(stk)].nested_content =
                                          Append(@, node)]
            /\ cpc' = "loop"
            /\ UNCHANGED <<deep_content, crawl_result>>
       ELSE /\ stack' = stk
            /\ IF mode = "deep_scrape_grants"
               THEN /\ deep_content' = Append(deep_content, node)
                    /\ cpc' = "links"
                    /\ UNCHANGED crawl_result
               ELSE /\ crawl_result' = <<node>>
                    /\ cpc' = "done"
                    /\ UNCHANGED deep_content

\* deep_scrape_grants: one iteration of `for grant in grant_details` up to its
\* first link, or the function's return.
DeepScrapeGrant ==
    /\ cpc = "grant"
    /\ grant_i <= Len(grant_details)
    /\ LET grant == grant_details[grant_i] IN
       IF grant.links = <<>>
       THEN /\ scrape_results' = Append(scrape_results, WithDeepContent(grant, <<>>))
            /\ grant_i' = grant_i + 1
            /\ UNCHANGED <<cpc, link_i, deep_content, visited_urls, base_domain,
                           fetch_log>>
       ELSE /\ deep_content' = <<>>
            /\ visited_urls' = {}
            /\ base_domain' = DomainOf(grant.url)
            /\ link_i' = 1
            /\ fetch_log' = <<>>
            /\ cpc' = "links"
            /\ UNCHANGED <<scrape_results, grant_i>>
    /\ UNCHANGED <<pipeVars, subVars, taskVars, loopVars, jobVars>>
    /\ UNCHANGED <<mode, grant_details, max_depth, stack, call, web, crawl_result>>

DeepScrapeReturn ==
    /\ cpc = "grant"
    /\ grant_i > Len(grant_details)
    /\ cpc' = "done"
    /\ UNCHANGED <<pipeVars, subVars, taskVars, loopVars, jobVars>>
    /\ UNCHANGED <<mode, grant_details, grant_i, link_i, deep_content,
                   scrape_results, visited_urls, base_domain, max_depth, stack,
                   call, web, fetch_log, crawl_result>>

\* deep_scrape_grants: one iteration of `for link_url in links`, or the end of
\* the loop and results.append.
DeepScrapeLink ==
    /\ cpc = "links"
    /\ LET grant == grant_details[grant_i] IN
       IF link_i > Len(grant.links)
       THEN /\ scrape_results' =
                   Append(scrape_results, WithDeepContent(grant, deep_content))
            /\ grant_i' = grant_i + 1
            /\ cpc' = "grant"
            /\ UNCHANGED <<link_i, call>>
       ELSE /\ link_i' = link_i + 1
            /\ UNCHANGED <<scrape_results, grant_i>>
            /\ IF ~IsHttp(grant.links[link_i])
               THEN UNCHANGED <<cpc, call>>
               ELSE /\ call' = <<[url |-> grant.links[link_i], current_depth |-> 0]>>
                    /\ cpc' = "enter"
    /\ UNCHANGED <<pipeVars, subVars, taskVars, loopVars, jobVars>>
    /\ UNCHANGED <<mode, grant_details, deep_content, visited_urls, base_domain,
                   max_depth, stack, web, fetch_log, crawl_result>>

\* scrape_url_recursive entered with a URL of visited_urls.
ScrapeVisited ==
    /\ cpc = "enter"
    /\ AlreadyVisited(call[1].url, visited_urls)
    /\ Return(VisitedNode(call[1].url), stack)
    /\ UNCHANGED <<pipeVars, subVars, taskVars, loopVars, jobVars>>
    /\ UNCHANGED <<mode, grant_details, grant_i, link_i, scrape_results,
                   visited_urls, base_domain, max_depth, web, fetch_log>>

\* scrape_url_recursive entered with a new URL: visited_urls.add, the fetch,
\* and the return at max depth or the start of the loop over the links.
ScrapeFetch ==
    /\ cpc = "enter"
    /\ ~AlreadyVisited(call[1].url, visited_urls)
    /\ LET url == call[1].url
           depth == call[1].current_depth
       IN /\ visited_urls' = visited_urls \cup {url}
          /\ fetch_log' = Append(fetch_log, url)
          /\ \E page_data \in PageOutcomes :
                /\ url \in DOMAIN web => page_data = web[url]
                /\ url \notin DOMAIN web =>
                       \/ page_data.links = <<>>
                       \/ GraphLinks(grant_details, web) + Len(page_data.links)
                              <= MaxGraphLinks
                /\ web' = IF url \in DOMAIN web THEN web
                                                ELSE (url :> page_data) @@ web
                /\ IF AtMaxDepth(depth, max_depth)
                   THEN Return(ResultNode(url, page_data), stack)
                   ELSE /\ Len(stack) < MaxStack
                        /\ stack' = Append(stack,
                               [url |-> url, content |-> page_data.content,
                                links |-> page_data.links, nested_content |-> <<>>,
                                error |-> page_data.error,
                                current_depth |-> depth, i |-> 1])
                        /\ call' = <<>>
                        /\ cpc' = "loop"
                        /\ UNCHANGED <<deep_content, crawl_result>>
    /\ UNCHANGED <<pipeVars, subVars, taskVars, loopVars, jobVars>>
    /\ UNCHANGED <<mode, grant_details, grant_i, link_i, scrape_results,
                   base_domain, max_depth>>

\* scrape_url_recursive: one iteration of `for link_url in page_data["links"]`.
ScrapeFollow ==
    /\ cpc = "loop"
    /\ Top(stack).i <= Len(Top(stack).links)
    /\ LET f == Top(stack)
           link_url == f.links[f.i]
       IN /\ stack' = [stack EXCEPT ![Len(stack)].i = @ + 1]
          /\ IF ~SameDomain(link_url, base_domain) \/ ~IsHttp(link_url)
             THEN UNCHANGED <<cpc, call>>
             ELSE /\ call' = <<[url |-> link_url,
                                current_depth |-> f.current_depth + 1]>>
                  /\ cpc' = "enter"
    /\ UNCHANGED <<pipeVars, subVars, taskVars, loopVars, jobVars>>
    /\ UNCHANGED <<mode, grant_details, grant_i, link_i, deep_content,
                   scrape_results, visited_urls, base_domain, max_depth, web,
                   fetch_log, crawl_result>>

\* scrape_url_recursive: the loop is over, return result.
ScrapeReturn ==
    /\ cpc = "loop"
    /\ Top(stack).i > Len(Top(stack).links)
    /\ Return(NodeOfFrame(Top(stack)), Pop(stack))
    /\ UNCHANGED <<pipeVars, subVars, taskVars, loopVars, jobVars>>
    /\ UNCHANGED <<mode, grant_details, grant_i, link_i, scrape_results,
                   visited_urls, base_domain, max_depth, web, fetch_log>>

NextCrawl ==
    \/ DeepScrapeGrant
    \/ DeepScrapeReturn
    \/ DeepScrapeLink
    \/ ScrapeVisited
    \/ ScrapeFetch
    \/ ScrapeFollow
    \/ ScrapeReturn

(***************************************************************************)
(* The tables and the status table.                                        *)
(***************************************************************************)
InitiativeIds == {1}
Thresholds == {LegacyThreshold, RATING_THRESHOLD}

\* The ratings within range the responses of the model carry: on either
\* threshold.  Those out of range give, once clamped, one rating below both
\* thresholds and one above both.
PrelimRatings == {DefaultRating, RATING_THRESHOLD}

SitePaths == <<"p1", "p2", "p3">>
SiteUrl(k) == Url("https", SiteHost, SitePaths[((k - 1) % 3) + 1])
LookalikeUrl == Url("https", LookalikeHost, "p1")

\* Row `id` of table grants: every other grant has no links.
GrantRow(id) ==
    [id |-> id, name |-> "name", url |-> SiteUrl(id), button_text |-> "button",
     card_body_text |-> "card",
     links |-> IF id % 2 = 1 THEN <<SiteUrl(id + 1), LookalikeUrl>> ELSE <<>>]

GrantTable(n) == [id \in 1..n |-> GrantRow(id)]

\* The pages the pipeline's crawl finds: a cycle p1 -> p2 -> p1, a look-alike
\* host linking back to the site; what p3 holds is left open.
\* A link to another origin, which no crawl of the site follows.
PlainHttpUrl == Url("http", SiteHost, "p1")

PipelineWeb ==
    (SiteUrl(1) :> [content |-> "text", links |-> <<SiteUrl(2), PlainHttpUrl>>,
                       error |-> NoneVal])
    @@ (SiteUrl(2) :> [content |-> "text", links |-> <<SiteUrl(1), SiteUrl(3)>>,
                       error |-> NoneVal])
    @@ (LookalikeUrl :> [content |-> "text", links |-> <<SiteUrl(1)>>,
                         error |-> NoneVal])

ResultColumns ==
    {"grant_id", "initiative_id", "prelim_rating", "grant_description", "criteria",
     "grant_amount", "match_rating", "uncertainty_rating", "deadline", "sources",
     "explanations", "sponsor_name", "sponsor_description"}

\* NULL in a column.
NullOf(col) ==
    CASE col \in {"grant_id", "initiative_id", "prelim_rating", "match_rating",
                  "uncertainty_rating"} -> NoneInt
      [] col = "sources" -> <<>>
      [] col = "explanations" ->
            [match_rating |-> NoneVal, uncertainty_rating |-> NoneVal]
      [] OTHER -> NoneVal

\* The row a Result object is stored as: the columns it does not set are NULL.
NewRow(obj) ==
    [col \in ResultColumns |-> IF col \in DOMAIN obj THEN obj[col] ELSE NullOf(col)]

\* ResultAccess.get_by_ids: the index of the first row with the key, or 0.
ResultAccess_get_by_ids(rs, grant_id, init_id) ==
    LET hits == {k \in DOMAIN rs : rs[k].grant_id = grant_id
                                   /\ rs[k].initiative_id = init_id}
    IN IF hits = {} THEN 0 ELSE CHOOSE k \in hits : \A j \in hits : k <= j

\* Result.prelim_rating > min_rating
AtOrAboveThreshold(rating, min_rating) == rating >= min_rating
AboveThreshold(rating, min_rating) == rating > min_rating

\* ResultAccess.get_filtered_by_rating
get_filtered_by_rating(rs, init_id, min_rating) ==
    SelectSeq(rs, LAMBDA r : r.initiative_id = init_id
                             /\ AboveThreshold(r.prelim_rating, min_rating))

\* The lists a query without ORDER BY can return for the rows it selects: the
\* database is free to return them in any order.
Orderings(rows) ==
    {[i \in 1..Len(rows) |-> rows[p[i]]] :
        p \in {q \in [1..Len(rows) -> 1..Len(rows)] :
                  \A i, j \in 1..Len(rows) : q[i] = q[j] => i = j}}

\* GrantAccess.get_all
GrantAccess_get_all(gs) == Orderings(gs)

\* GrantAccess.get_by_ids
GrantAccess_get_by_ids(gs, grant_ids) ==
    Orderings(SelectSeq(gs, LAMBDA g : g.id \in grant_ids))

\* ResultAccess.create: db.add, db.commit.  The composite primary key of
\* table results refuses a second row with the same key.
KeyTaken(rs, obj) == ResultAccess_get_by_ids(rs, obj.grant_id, obj.initiative_id) # 0
ResultAccess_create(rs, obj) == Append(rs, NewRow(obj))

\* run_pipeline, Phase 1, "Save/Update Result".
CreatePrelimAlways(rs, grant_id, init_id, rating) ==
    ResultAccess_create(rs, [grant_id |-> grant_id, initiative_id |-> init_id,
                             prelim_rating |-> rating])
\* A Phase 1 write that stores a fresh row in place of the one it found.
\* A Phase 1 write that has not reached the table when the status is published.
SavePrelimPending(rs, grant_id, init_id, rating) == rs

SavePrelimFresh(rs, grant_id, init_id, rating) ==
    LET k == ResultAccess_get_by_ids(rs, grant_id, init_id)
        fresh == NewRow([grant_id |-> grant_id, initiative_id |-> init_id,
                         prelim_rating |-> rating])
    IN IF k # 0 THEN [rs EXCEPT ![k] = fresh] ELSE Append(rs, fresh)

SavePrelim(rs, grant_id, init_id, rating) ==
    LET k == ResultAccess_get_by_ids(rs, grant_id, init_id)
    IN IF k # 0
       THEN [rs EXCEPT ![k].prelim_rating = rating]
       ELSE ResultAccess_create(rs, [grant_id |-> grant_id, initiative_id |-> init_id,
                                     prelim_rating |-> rating])

\* ResultAccess.create_or_update: every attribute the object carries, the key
\* apart, is set on the existing row.
create_or_update(rs, obj) ==
    LET k == ResultAccess_get_by_ids(rs, obj.grant_id, obj.initiative_id)
    IN IF k # 0
       THEN [rs EXCEPT ![k] =
               [col \in ResultColumns |->
                  IF col \in DOMAIN obj /\ col \notin {"grant_id", "initiative_id"}
                  THEN obj[col] ELSE rs[k][col]]]
       ELSE ResultAccess_create(rs, obj)

\* gemini_to_sqlalchemy
gemini_to_sqlalchemy(gr, grant_id, init_id, prelim) ==
    [grant_id |-> grant_id, initiative_id |-> init_id, prelim_rating |-> prelim,
     grant_description |-> gr.grant_description, criteria |-> gr.criteria,
     grant_amount |-> gr.grant_amount, match_rating |-> gr.match_rating,
     uncertainty_rating |-> gr.uncertainty_rating, deadline |-> gr.deadline,
     sources |-> gr.sources,
     explanations |-> [match_rating |-> gr.match_rating_explanation,
                       uncertainty_rating |-> gr.uncertainty_rating_explanation]]

\* The error of a status: a text and the initiative id it names, if any.
ErrorMessage(text, id) == [text |-> text, id |-> id]

\* error=None
NoError == ErrorMessage(NoneVal, NoneInt)

\* error_msg = f"Initiative {initiative_id} not found"
InitiativeNotFoundUnnamed(id) == ErrorMessage("Initiative not found", NoneInt)
InitiativeNotFound(id) == ErrorMessage("Initiative {initiative_id} not found", id)

\* error_msg = f"Organization for initiative {initiative_id} not found"
OrganizationNotFound(id) ==
    ErrorMessage("Organization for initiative {initiative_id} not found", id)

\* error_msg = "No grants found in database"
NoGrantsFound == ErrorMessage("No grants found in database", NoneInt)

\* error=str(e), of whatever exception was raised
ExceptionMessage == ErrorMessage("str(e)", NoneInt)

\* A status write that counts the grant just done as still to do.
update_status_behind(table, init_id, phase, remaining_calls, total_grants, current_grant, error) ==
    [table EXCEPT ![init_id] =
        <<[phase |-> phase,
           remaining_calls |-> IF current_grant = NoneInt THEN remaining_calls
                                                          ELSE remaining_calls + 1,
           total_grants |-> total_grants, current_grant |-> current_grant,
           error |-> error]>>]

\* A status write that is lost.
update_status_dropped(table, init_id, phase, remaining_calls, total_grants, current_grant, error) == table

\* A status write that always lands on the entry of initiative 1.
update_status_first(table, init_id, phase, remaining_calls, total_grants, current_grant, error) ==
    [table EXCEPT ![1] =
        <<[phase |-> phase, remaining_calls |-> remaining_calls,
           total_grants |-> total_grants, current_grant |-> current_grant,
           error |-> error]>>]

\* pipeline_status.py
update_status(table, init_id, phase, remaining_calls, total_grants, current_grant, error) ==
    [table EXCEPT ![init_id] =
        <<[phase |-> phase, remaining_calls |-> remaining_calls,
           total_grants |-> total_grants, current_grant |-> current_grant,
           error |-> error]>>]

clear_status(table, init_id) == [table EXCEPT ![init_id] = <<>>]

(***************************************************************************)
(* gemini_service.py: the responses and the retry loop's conditions.       *)
(***************************************************************************)
\* A response of the model that validates as a detailed analysis.
DeepAnalysis(tag, match, uncertainty) ==
    [grant_description |-> tag, criteria |-> tag, grant_amount |-> tag,
     match_rating |-> match, uncertainty_rating |-> uncertainty,
     deadline |-> tag, sources |-> <<SiteUrl(1)>>,
     match_rating_explanation |-> tag, uncertainty_rating_explanation |-> tag,
     sponsor_name |-> tag, sponsor_description |-> tag]

DetailedResponses == {DeepAnalysis("A", 80, 10), DeepAnalysis("B", 65, 40)}

\* What one call of generate_content gives: an exception, or a response whose
\* text is JSON of the shape asked for or is not.
CallError == [kind |-> "error"]

OutOfRangeRatings == {MinRating - 1, MaxRating + 1}

PrelimResponses ==
    {[kind |-> "json", rating |-> r] : r \in PrelimRatings \cup OutOfRangeRatings}
    \cup {[kind |-> "malformed", rating |-> NoneInt]}

DetailedResponseTexts ==
    {[kind |-> "json", analysis |-> <<a>>] :
         a \in DetailedResponses \cup {DeepAnalysis("C", MaxRating + 1, 10)}}
    \cup {[kind |-> "malformed", analysis |-> <<>>]}

\* The rating brought into [0,100].
NoClamp(n) == n
Clamp(n) == IF n < MinRating THEN MinRating
            ELSE IF n > MaxRating THEN MaxRating ELSE n

\* GeminiPreliminaryAnalysis.model_validate_json(response.text): a rating out
\* of range is clamped, a text that is no rating raises.
ValidatePreliminary(response) ==
    IF response.kind = "json"
    THEN [ok |-> TRUE, rating |-> Clamp(response.rating)]
    ELSE [ok |-> FALSE, rating |-> NoneInt]

\* GeminiDeepAnalysis.model_validate_json(response.text): raises unless the
\* text has the shape of a detailed analysis, ratings within [0,100].
InRange(n) == MinRating <= n /\ n <= MaxRating
AcceptShape(response) == [ok |-> response.kind = "json", analysis |-> response.analysis]
ValidateDetailed(response) ==
    IF response.kind = "json"
    THEN [ok |-> InRange(response.analysis[1].match_rating)
                 /\ InRange(response.analysis[1].uncertainty_rating),
          analysis |-> response.analysis]
    ELSE [ok |-> FALSE, analysis |-> <<>>]

\* The kind of failure of an attempt: the call raised, or its response did
\* not validate.  Either is an Exception in the try block.
FailureKind(outcome) == IF outcome.kind = "error" THEN "error" ELSE "invalid"

\* What analyze_grant_detailed returns when every attempt failed.
DegradedAnalysis(grant_url) ==
    [grant_description |-> "Analysis error occurred after multiple retries",
     criteria |-> "[]", grant_amount |-> "Unknown",
     match_rating |-> 0, uncertainty_rating |-> 100,
     deadline |-> NoneVal, sources |-> <<grant_url>>,
     match_rating_explanation |-> "Error during analysis after MAX_RETRIES attempts",
     uncertainty_rating_explanation |->
         "Unable to complete analysis due to repeated errors",
     sponsor_name |-> "Unknown", sponsor_description |-> "Unknown"]

\* except: if attempt < MAX_RETRIES (sleep RETRY_DELAY and go round again)
RetryThroughLast(att) == att <= MAX_RETRIES
RetryAllowed(att) == att < MAX_RETRIES

\* finally: if attempt < MAX_RETRIES: rate_limit_sleep()
RateLimitSleeps(att) == att < MAX_RETRIES

\* "return 50": the default rating after all retries are exhausted.
ZeroRating == DefaultRating - DefaultRating
FallbackRating == DefaultRating

(***************************************************************************)
(* file_service.py: the links download_files_from_links takes for files.   *)
(* Every download is taken to succeed.                                     *)
(***************************************************************************)
DocumentPaths == {"doc.pdf", "doc.docx", "doc.doc", "doc.txt", "doc.md"}
download_files_from_links(links) ==
    SelectSeq(links, LAMBDA l : l.path \in DocumentPaths)

(***************************************************************************)
(* pipeline_service.py: run_pipeline, step by step.                        *)
(***************************************************************************)
Last(s) == s[Len(s)]

Publish(phase, remaining_calls, total_grants, current_grant, error) ==
    /\ pipeline_status' = update_status(pipeline_status, initiative_id, phase,
                              remaining_calls, total_grants, current_grant, error)
    /\ published' = Append(published, phase)

NoDomain == [scheme |-> "", netloc |-> <<>>]

\* The crawler at rest.
CrawlIdle ==
    /\ cpc' = "idle"
    /\ mode' = "deep_scrape_grants"
    /\ grant_details' = <<>>
    /\ grant_i' = 1
    /\ link_i' = 1
    /\ deep_content' = <<>>
    /\ scrape_results' = <<>>
    /\ visited_urls' = {}
    /\ base_domain' = NoDomain
    /\ max_depth' = 0
    /\ stack' = <<>>
    /\ call' = <<>>
    /\ fetch_log' = <<>>
    /\ crawl_result' = <<>>
    /\ UNCHANGED web

\* run_pipeline has returned: its locals are gone.
LocalsGone ==
    /\ initiative_id' = 0
    /\ threshold' = 0
    /\ grants' = <<>>
    /\ idx' = 0
    /\ attempt' = 0
    /\ prelim_rating' = NoneInt
    /\ filtered_grants' = <<>>
    /\ deep_scraped' = <<>>
    /\ all_links' = <<>>
    /\ downloaded_files' = <<>>
    /\ gemini_result' = <<>>
    /\ called' = FALSE
    /\ slept' = FALSE
    /\ invocations' = 0
    /\ validated' = <<>>
    /\ failed_kinds' = {}
    /\ p1_returned' = <<>>
    /\ p2_stored' = <<>>

dbVars == <<db_initiatives, db_organisations, db_grants>>

StartRun(i, t) ==
    /\ pc' = "start"
    /\ initiative_id' = i
    /\ threshold' = t
    /\ runs' = runs + 1
    /\ published' = <<>>
    /\ UNCHANGED <<dbVars, db_results, grants, idx, attempt, prelim_rating,
                   filtered_grants, deep_scraped, all_links, downloaded_files,
                   gemini_result, called, slept, invocations, validated, failed_kinds,
                   p1_returned, p2_stored, scored, crawlVars>>

\* A filter_grants that clears the entry before it looks the initiative up.
FilterGrantsClearingFirst ==
    /\ pc = "idle"
    /\ \E i \in InitiativeIds, t \in Thresholds :
         IF i \notin db_initiatives
         THEN /\ last_response' = "404"
              /\ pipeline_status' = clear_status(pipeline_status, i)
              /\ UNCHANGED <<dbVars, db_results, pc, initiative_id,
                             threshold, grants, idx, attempt, prelim_rating,
                             filtered_grants, deep_scraped, all_links,
                             downloaded_files, gemini_result, runs, published,
                             called, slept, invocations, validated, failed_kinds,
                             p1_returned, p2_stored, scored, crawlVars>>
         ELSE /\ runs < MaxRuns
              /\ last_response' = "started"
              /\ pipeline_status' = clear_status(pipeline_status, i)
              /\ StartRun(i, t)
    /\ UNCHANGED <<subVars, taskVars, loopVars, jobVars>>

\* routers/pipeline.py, filter_grants: 404 for an unknown initiative, else
\* clear_status and the task that runs run_pipeline.
FilterGrants ==
    /\ pc = "idle"
    /\ \E i \in InitiativeIds, t \in Thresholds :
         IF i \notin db_initiatives
         THEN /\ last_response' = "404"
              /\ UNCHANGED <<dbVars, db_results, pipeline_status, pc, initiative_id,
                             threshold, grants, idx, attempt, prelim_rating,
                             filtered_grants, deep_scraped, all_links,
                             downloaded_files, gemini_result, runs, published,
                             called, slept, invocations, validated, failed_kinds, p1_returned, p2_stored,
                             scored, crawlVars>>
         ELSE /\ runs < MaxRuns
              /\ last_response' = "started"
              /\ pipeline_status' = clear_status(pipeline_status, i)
              /\ StartRun(i, t)
    /\ UNCHANGED <<subVars, taskVars, loopVars, jobVars>>

\* run_pipeline called by any other caller, whatever the tables hold.
RunPipelineCalled ==
    /\ pc = "idle"
    /\ runs < MaxRuns
    /\ \E i \in InitiativeIds, t \in Thresholds : StartRun(i, t)
    /\ UNCHANGED <<pipeline_status, last_response>>
    /\ UNCHANGED <<subVars, taskVars, loopVars, jobVars>>

\* Steps 1 and 2, and the first update_status of Phase 1.
LoadContext ==
    /\ pc = "start"
    /\ IF initiative_id \notin db_initiatives
       THEN /\ Publish("error", NoneInt, NoneInt, NoneInt,
                       InitiativeNotFound(initiative_id))
            /\ pc' = "closing"
            /\ UNCHANGED <<grants, idx, attempt>>
       ELSE IF initiative_id \notin db_organisations
       THEN /\ Publish("error", NoneInt, NoneInt, NoneInt,
                       OrganizationNotFound(initiative_id))
            /\ pc' = "closing"
            /\ UNCHANGED <<grants, idx, attempt>>
       ELSE IF db_grants = <<>>
       THEN /\ Publish("error", NoneInt, NoneInt, NoneInt, NoGrantsFound)
            /\ pc' = "closing"
            /\ UNCHANGED <<grants, idx, attempt>>
       ELSE /\ grants' \in GrantAccess_get_all(db_grants)
            /\ Publish("calculating", Len(db_grants), NoneInt, NoneInt, NoError)
            /\ idx' = 1
            /\ attempt' = 1
            /\ pc' = "p1_call"
    /\ UNCHANGED <<dbVars, db_results, initiative_id, threshold, prelim_rating,
                   filtered_grants, deep_scraped, all_links, downloaded_files,
                   gemini_result, runs, last_response, called, slept, invocations,
                   validated, failed_kinds, p1_returned, p2_stored, scored, crawlVars>>
    /\ UNCHANGED <<subVars, taskVars, loopVars, jobVars>>

\* The grant the loop of Phase 1 is at.
CurrentGrant == grants[idx]

\* analyze_grant_preliminary: one turn of the retry loop, that is one call of
\* generate_content with the validation of its response, the except clause
\* and the finally clause.
PrelimAttempt ==
    /\ pc = "p1_call"
    /\ invocations' = invocations + 1
    /\ called' = TRUE
    /\ slept' = RateLimitSleeps(attempt)
    /\ \E outcome \in {CallError} \cup PrelimResponses :
         IF outcome.kind # "error" /\ ValidatePreliminary(outcome).ok
         THEN LET rating == ValidatePreliminary(outcome).rating IN
              /\ prelim_rating' = rating
              /\ validated' = Append(validated, [attempt |-> attempt,
                                                 raw |-> <<outcome.rating>>,
                                                 value |-> <<rating>>])
              /\ p1_returned' = (CurrentGrant.id :> [rating |-> rating,
                                                      exhausted |-> FALSE])
                                 @@ p1_returned
              /\ pc' = "p1_save"
              /\ UNCHANGED <<attempt, failed_kinds>>
         ELSE /\ failed_kinds' = failed_kinds \cup {FailureKind(outcome)}
              /\ IF RetryAllowed(attempt)
                 THEN /\ attempt' = attempt + 1
                      /\ UNCHANGED <<pc, prelim_rating, validated, p1_returned>>
                 ELSE /\ prelim_rating' = FallbackRating
                      /\ p1_returned' =
                             (CurrentGrant.id :> [rating |-> FallbackRating,
                                                  exhausted |-> TRUE])
                             @@ p1_returned
                      /\ pc' = "p1_save"
                      /\ UNCHANGED <<attempt, validated>>
    /\ UNCHANGED <<dbVars, db_results, pipeline_status, initiative_id, threshold,
                   grants, idx, filtered_grants, deep_scraped, all_links,
                   downloaded_files, gemini_result, runs, last_response, published,
                   scored, crawlVars>>
    /\ UNCHANGED <<p2_stored, subVars, taskVars, loopVars, jobVars>>

\* The preliminary ratings stored for a grant so far, run after run.
StoredBefore(grant_id) == IF grant_id \in DOMAIN scored THEN scored[grant_id] ELSE <<>>

\* Phase 1, the rest of the loop body: "Save/Update Result", update_status.
P1Save ==
    /\ pc = "p1_save"
    /\ db_results' = SavePrelim(db_results, CurrentGrant.id, initiative_id,
                                prelim_rating)
    /\ scored' = (CurrentGrant.id :> Append(StoredBefore(CurrentGrant.id),
                                             prelim_rating)) @@ scored
    /\ Publish("calculating", Len(grants) - idx, Len(grants), idx, NoError)
    /\ IF idx < Len(grants)
       THEN /\ idx' = idx + 1
            /\ attempt' = 1
            /\ invocations' = 0
            /\ validated' = <<>>
            /\ failed_kinds' = {}
            /\ pc' = "p1_call"
       ELSE /\ pc' = "filter"
            /\ failed_kinds' = {}
            /\ UNCHANGED <<idx, attempt, invocations, validated>>
    /\ UNCHANGED <<dbVars, initiative_id, threshold, grants, prelim_rating,
                   filtered_grants, deep_scraped, all_links, downloaded_files,
                   gemini_result, runs, last_response, called, slept, p1_returned, p2_stored,
                   crawlVars>>
    /\ UNCHANGED <<subVars, taskVars, loopVars, jobVars>>

\* grant_dicts.append({...})
GrantDictOf(grant) ==
    [url |-> grant.url,
     button_text |-> IF grant.button_text # NoneVal THEN grant.button_text
                                                    ELSE grant.name,
     card_body_text |-> grant.card_body_text,
     links |-> grant.links]

\* The phase published once the filter is known: completed when nothing
\* passes, deep_scraping otherwise.
PhaseIgnoringFilter(fg) == "analyzing"
PhaseAfterFilter(fg) == IF fg = <<>> THEN "completed" ELSE "deep_scraping"

\* Step 4, and either the return when nothing passes or the start of Step 5.
FilterStep ==
    /\ pc = "filter"
    /\ LET filtered_results ==
               get_filtered_by_rating(db_results, initiative_id, threshold)
           filtered_grant_ids ==
               {filtered_results[k].grant_id : k \in DOMAIN filtered_results}
       IN \E fg \in GrantAccess_get_by_ids(db_grants, filtered_grant_ids) :
          /\ filtered_grants' = fg
          /\ IF fg = <<>>
             THEN /\ Publish(PhaseAfterFilter(fg), 0, Len(grants), NoneInt, NoError)
                  /\ pc' = "closing"
                  /\ UNCHANGED crawlVars
             ELSE /\ Publish(PhaseAfterFilter(fg), Len(fg), Len(fg), NoneInt,
                             NoError)
                  /\ pc' = "crawl"
                  /\ grant_details' = [k \in DOMAIN fg |-> GrantDictOf(fg[k])]
                  /\ mode' = "deep_scrape_grants"
                  /\ max_depth' = PipelineMaxDepth
                  /\ cpc' = "grant"
                  /\ grant_i' = 1
                  /\ scrape_results' = <<>>
                  /\ UNCHANGED <<link_i, deep_content, visited_urls, base_domain,
                                 stack, call, web, fetch_log, crawl_result>>
    /\ UNCHANGED <<dbVars, db_results, initiative_id, threshold, grants, idx,
                   attempt, prelim_rating, deep_scraped, all_links,
                   downloaded_files, gemini_result, runs, last_response, called,
                   slept, invocations, validated, failed_kinds, p1_returned, p2_stored, scored>>
    /\ UNCHANGED <<subVars, taskVars, loopVars, jobVars>>

\* deep_scrape_grants has returned: Step 6 begins.
DeepScrapingDone ==
    /\ pc = "crawl"
    /\ cpc = "done"
    /\ deep_scraped' = scrape_results
    /\ Publish("analyzing", Len(filtered_grants), Len(filtered_grants), NoneInt,
               NoError)
    /\ idx' = 1
    /\ pc' = "p2_prepare"
    /\ CrawlIdle
    /\ UNCHANGED <<dbVars, db_results, initiative_id, threshold, grants, attempt,
                   prelim_rating, filtered_grants, all_links, downloaded_files,
                   gemini_result, runs, last_response, called, slept, invocations,
                   validated, failed_kinds, p1_returned, p2_stored, scored>>
    /\ UNCHANGED <<subVars, taskVars, loopVars, jobVars>>

\* for nested in deep_data.get("deep_content", []): all_links.extend(...)
RECURSIVE NestedLinks(_)
NestedLinks(nodes) ==
    IF nodes = <<>> THEN <<>>
    ELSE nodes[1].links \o NestedLinks(Tail(nodes))

AllLinksOf(deep_data) == deep_data.links \o NestedLinks(deep_data.deep_content)

\* "links": grant.links or []: the dict of a grant holds the list object of
\* the grant itself unless that list is empty, and {**grant, ...} of
\* deep_scrape_grants copies the reference.  The session expires its
\* instances at every commit, so that the grant holds that object up to the
\* first commit after the dicts were built: in the first turn of the loop.
HoldsListOf(grant, i) == grant.links # <<>> /\ i = 1

\* all_links.extend(...) as the instances of grant `id` see it.
ExtendedInPlace(gs, id, links) ==
    [k \in DOMAIN gs |-> IF gs[k].id = id THEN [gs[k] EXCEPT !.links = links]
                                          ELSE gs[k]]

\* The instances after a commit: an expired attribute is loaded again from
\* table grants when it is next read.
RowOf(table, id) == table[CHOOSE k \in DOMAIN table : table[k].id = id]
Expired(gs, table) == [k \in DOMAIN gs |-> RowOf(table, gs[k].id)]

\* Phase 2, the loop body up to the call of analyze_grant_detailed.  all_links
\* is the list object of deep_data, which extend() changes in place.
P2Prepare ==
    /\ pc = "p2_prepare"
    /\ LET grant == filtered_grants[idx]
           deep_data == deep_scraped[idx]
           k == ResultAccess_get_by_ids(db_results, grant.id, initiative_id)
       IN /\ all_links' = AllLinksOf(deep_data)
          /\ deep_scraped' = [deep_scraped EXCEPT ![idx].links = AllLinksOf(deep_data)]
          /\ IF HoldsListOf(grant, idx)
             THEN /\ filtered_grants' = ExtendedInPlace(filtered_grants, grant.id,
                                                        AllLinksOf(deep_data))
                  /\ grants' = ExtendedInPlace(grants, grant.id,
                                               AllLinksOf(deep_data))
             ELSE UNCHANGED <<grants, filtered_grants>>
          /\ downloaded_files' = download_files_from_links(AllLinksOf(deep_data))
          /\ prelim_rating' = IF k # 0 THEN db_results[k].prelim_rating
                                       ELSE DefaultRating
    /\ attempt' = 1
    /\ invocations' = 0
    /\ validated' = <<>>
    /\ failed_kinds' = {}
    /\ pc' = "p2_call"
    /\ UNCHANGED <<dbVars, db_results, pipeline_status, initiative_id, threshold,
                   idx, gemini_result, runs, last_response,
                   published, called, slept, p1_returned, p2_stored, scored, crawlVars>>
    /\ UNCHANGED <<subVars, taskVars, loopVars, jobVars>>

\* analyze_grant_detailed: one turn of the retry loop.
DetailedAttempt ==
    /\ pc = "p2_call"
    /\ invocations' = invocations + 1
    /\ called' = TRUE
    /\ slept' = RateLimitSleeps(attempt)
    /\ \E outcome \in {CallError} \cup DetailedResponseTexts :
         IF outcome.kind # "error" /\ ValidateDetailed(outcome).ok
         THEN LET analysis == ValidateDetailed(outcome).analysis[1] IN
              /\ gemini_result' = <<analysis>>
              /\ validated' = Append(validated, [attempt |-> attempt,
                                                 raw |-> outcome.analysis,
                                                 value |-> <<analysis>>])
              /\ pc' = "p2_save"
              /\ UNCHANGED <<attempt, failed_kinds>>
         ELSE /\ failed_kinds' = failed_kinds \cup {FailureKind(outcome)}
              /\ IF RetryAllowed(attempt)
                 THEN /\ attempt' = attempt + 1
                      /\ UNCHANGED <<pc, gemini_result, validated>>
                 ELSE /\ gemini_result' =
                             <<DegradedAnalysis(filtered_grants[idx].url)>>
                      /\ pc' = "p2_save"
                      /\ UNCHANGED <<attempt, validated>>
    /\ UNCHANGED <<dbVars, db_results, pipeline_status, initiative_id, threshold,
                   grants, idx, prelim_rating, filtered_grants, deep_scraped,
                   all_links, downloaded_files, runs, last_response, published,
                   p1_returned, p2_stored, scored, crawlVars>>
    /\ UNCHANGED <<subVars, taskVars, loopVars, jobVars>>

\* Phase 2, the rest of the loop body: gemini_to_sqlalchemy, create_or_update,
\* update_status.
P2Save ==
    /\ pc = "p2_save"
    /\ LET grant == filtered_grants[idx]
           result_obj == gemini_to_sqlalchemy(gemini_result[1], grant.id,
                                              initiative_id, prelim_rating)
       IN /\ db_results' = create_or_update(db_results, result_obj)
          /\ p2_stored' = (grant.id :> gemini_result[1]) @@ p2_stored
    /\ Publish("analyzing", Len(filtered_grants) - idx, Len(filtered_grants), idx,
               NoError)
    /\ IF idx < Len(filtered_grants)
       THEN /\ idx' = idx + 1
            /\ pc' = "p2_prepare"
       ELSE /\ pc' = "complete"
            /\ UNCHANGED idx
    /\ failed_kinds' = {}
    /\ grants' = Expired(grants, db_grants)
    /\ filtered_grants' = Expired(filtered_grants, db_grants)
    /\ UNCHANGED <<dbVars, initiative_id, threshold, attempt, prelim_rating,
                   deep_scraped, all_links, downloaded_files,
                   gemini_result, runs, last_response, called, slept, invocations,
                   validated, p1_returned, scored, crawlVars>>
    /\ UNCHANGED <<subVars, taskVars, loopVars, jobVars>>

\* Step 7.
Complete ==
    /\ pc = "complete"
    /\ Publish("completed", 0, Len(grants), NoneInt, NoError)
    /\ pc' = "closing"
    /\ UNCHANGED <<dbVars, db_results, initiative_id, threshold, grants, idx,
                   attempt, prelim_rating, filtered_grants, deep_scraped, all_links,
                   downloaded_files, gemini_result, runs, last_response, called,
                   slept, invocations, validated, failed_kinds, p1_returned, p2_stored, scored, crawlVars>>
    /\ UNCHANGED <<subVars, taskVars, loopVars, jobVars>>

\* The with block of get_db_session is left and run_pipeline returns.
SessionClose ==
    /\ pc = "closing"
    /\ pc' = "idle"
    /\ LocalsGone
    /\ UNCHANGED <<dbVars, db_results, pipeline_status, runs, last_response,
                   published, scored, crawlVars>>
    /\ UNCHANGED <<subVars, taskVars, loopVars, jobVars>>

\* get_db_session, `except Exception: db.rollback()`: what the session has not
\* committed is dropped.  Every access method that writes commits its write, so
\* the rows of the table are those written so far.
RollbackAll(rs) == <<>>
Rollback(rs) == rs

\* except Exception as e: any statement of the try block may raise.
RaiseException ==
    /\ pc # "idle"
    /\ Publish("error", NoneInt, NoneInt, NoneInt, ExceptionMessage)
    /\ pc' = "idle"
    /\ LocalsGone
    /\ CrawlIdle
    /\ db_results' = Rollback(db_results)
    /\ UNCHANGED <<dbVars, runs, last_response, scored>>
    /\ UNCHANGED <<subVars, taskVars, loopVars, jobVars>>

\* No subscription has been opened.
NoSubscription ==
    /\ sub_pc = "none"
    /\ last_status = <<>>
    /\ last_event = <<>>
    /\ emitted = FALSE
    /\ emitted_snapshot = <<>>
    /\ poll_parity = 0

\* The ids of the threads, the initiatives they run for and the grants of
\* table grants they go through.
TaskIds == 1..MaxTasks
TaskInitiatives == {1, 2}
TaskGrants == GrantTable(MaxTaskGrants)

\* `rated` and `stored` are history: what the run itself has written so far,
\* grant id -> the rating of Phase 1, grant id -> the analysis of Phase 2.
NotStarted ==
    [initiative_id |-> 0, pc |-> "none", idx |-> 0, filtered |-> <<>>,
     rated |-> <<>>, stored |-> <<>>]

\* No run has been started in a thread.
\* No call of either function has been made.
NotCalled == [pc |-> "none"]
NoLoop == dff = NotCalled /\ ggd = NotCalled

\* No refresh job has been started.
NoJob ==
    /\ job = [pc |-> "none", save_to_db |-> FALSE, found |-> 0, idx |-> 0,
              grants_saved |-> 0, errors |-> 0, phases |-> <<>>]
    /\ refresh_status = <<>>

NoTask ==
    /\ tasks = [t \in TaskIds |-> NotStarted]
    /\ shared_status = [i \in TaskInitiatives |-> <<>>]
    /\ shared_results = <<>>

\* Nothing of the pipeline is running.
PipelineAtRest ==
    /\ pipeline_status = [i \in InitiativeIds |-> <<>>]
    /\ pc = "idle"
    /\ initiative_id = 0
    /\ threshold = 0
    /\ grants = <<>>
    /\ idx = 0
    /\ attempt = 0
    /\ prelim_rating = NoneInt
    /\ filtered_grants = <<>>
    /\ deep_scraped = <<>>
    /\ all_links = <<>>
    /\ downloaded_files = <<>>
    /\ gemini_result = <<>>
    /\ runs = 0
    /\ last_response = "none"
    /\ published = <<>>
    /\ called = FALSE
    /\ slept = FALSE
    /\ invocations = 0
    /\ validated = <<>>
    /\ failed_kinds = {}
    /\ p1_returned = <<>>
    /\ p2_stored = <<>>

\* Table results as the runs of earlier processes can have left it: empty, or
\* one row for each grant, rated above the threshold and analysed in detail.
PriorRow(grant) ==
    NewRow(gemini_to_sqlalchemy(DeepAnalysis("A", 80, 10), grant.id, 1,
                                RATING_THRESHOLD + 1))

PriorResults(gs) ==
    {<<>>} \cup {[k \in DOMAIN gs |-> PriorRow(gs[k])]}

Init ==
    /\ db_initiatives \in SUBSET InitiativeIds
    /\ db_organisations \in SUBSET db_initiatives
    /\ db_grants \in {GrantTable(n) : n \in 0..MaxGrants}
    /\ db_results \in IF db_organisations = {} THEN {<<>>}
                      ELSE PriorResults(db_grants)
    /\ scored = [g \in {db_results[k].grant_id : k \in DOMAIN db_results} |->
                    <<db_results[CHOOSE k \in DOMAIN db_results :
                                     db_results[k].grant_id = g].prelim_rating>>]
    /\ PipelineAtRest
    /\ NoSubscription
    /\ NoTask
    /\ NoLoop
    /\ NoJob
    /\ cpc = "idle"
    /\ mode = "deep_scrape_grants"
    /\ grant_details = <<>>
    /\ grant_i = 1
    /\ link_i = 1
    /\ deep_content = <<>>
    /\ scrape_results = <<>>
    /\ visited_urls = {}
    /\ base_domain = NoDomain
    /\ max_depth = 0
    /\ stack = <<>>
    /\ call = <<>>
    /\ web = PipelineWeb
    /\ fetch_log = <<>>
    /\ crawl_result = <<>>

Next ==
    \/ FilterGrants
    \/ RunPipelineCalled
    \/ LoadContext
    \/ PrelimAttempt
    \/ P1Save
    \/ FilterStep
    \/ DeepScrapeGrant
    \/ DeepScrapeReturn
    \/ DeepScrapeLink
    \/ ScrapeVisited
    \/ ScrapeFetch
    \/ ScrapeFollow
    \/ ScrapeReturn
    \/ DeepScrapingDone
    \/ P2Prepare
    \/ DetailedAttempt
    \/ P2Save
    \/ Complete
    \/ SessionClose
    \/ RaiseException

Spec == Init /\ [][Next]_vars

\* The steps of a run under way.  run_pipeline is sequential code: it goes on
\* as long as each external call and each page fetch returns or fails.
RunStep ==
    \/ LoadContext
    \/ PrelimAttempt
    \/ P1Save
    \/ FilterStep
    \/ NextCrawl
    \/ DeepScrapingDone
    \/ P2Prepare
    \/ DetailedAttempt
    \/ P2Save
    \/ Complete
    \/ SessionClose

SpecFair == Spec /\ WF_vars(RunStep)

(***************************************************************************)
(* routers/pipeline.py: get_pipeline_status_stream and its event_generator *)
(***************************************************************************)
\* The initiative the subscription is for.
SubKey == 1

\* pipeline_status.get_status
get_status(table, init_id) == table[init_id]

\* if status != last_status
AlwaysChanged(status, last) == TRUE
\* A comparison that takes an absent status for a change.
ChangedOrAbsent(status, last) == status # last \/ status = <<>>
StatusChanged(status, last) == status # last

\* The phases at which the generator breaks out of its loop.
CompletedOnly(phase) == phase = "completed"
IsTerminal(phase) == phase \in {"completed", "error"}

\* The event yielded for a status: the message of completion, the error, the
\* phase with the counts that are not None, or idle when there is no status.
EventOf(status) ==
    IF status = <<>>
    THEN [status |-> "idle", remaining_calls |-> NoneInt, total_grants |-> NoneInt,
          current_grant |-> NoneInt, error |-> NoError, message |-> NoneVal]
    ELSE IF status[1].phase = "completed"
    THEN [status |-> "completed", remaining_calls |-> NoneInt,
          total_grants |-> NoneInt, current_grant |-> NoneInt, error |-> NoError,
          message |-> "Pipeline completed successfully"]
    ELSE IF status[1].phase = "error"
    THEN [status |-> "error", remaining_calls |-> NoneInt, total_grants |-> NoneInt,
          current_grant |-> NoneInt, error |-> status[1].error, message |-> NoneVal]
    ELSE [status |-> status[1].phase, remaining_calls |-> status[1].remaining_calls,
          total_grants |-> status[1].total_grants,
          current_grant |-> status[1].current_grant, error |-> NoError,
          message |-> NoneVal]

\* GET /get-status-stream/{initiative_id}: last_status = None.
SubOpen ==
    /\ sub_pc = "none"
    /\ sub_pc' = "polling"
    /\ last_status' = <<>>
    /\ UNCHANGED <<last_event, emitted, emitted_snapshot, poll_parity>>
    /\ UNCHANGED <<crawlVars, pipeVars, taskVars, loopVars, jobVars>>

\* One turn of `while True`: the status is read and, if it is not the one
\* kept, an event is yielded; the loop is left at completed or error, and
\* otherwise the status is kept and the generator sleeps a second.
SubPoll ==
    /\ sub_pc = "polling"
    /\ poll_parity' = 1 - poll_parity
    /\ LET status == get_status(pipeline_status, SubKey) IN
       IF StatusChanged(status, last_status)
       THEN /\ emitted' = TRUE
            /\ emitted_snapshot' = status
            /\ last_event' = <<EventOf(status)>>
            /\ IF status # <<>> /\ IsTerminal(status[1].phase)
               THEN sub_pc' = "closed" /\ UNCHANGED last_status
               ELSE sub_pc' = "polling" /\ last_status' = status
       ELSE /\ emitted' = FALSE
            /\ UNCHANGED <<sub_pc, last_status, last_event, emitted_snapshot>>
    /\ UNCHANGED <<crawlVars, pipeVars, taskVars, loopVars, jobVars>>

NextStream ==
    \/ Next
    \/ SubOpen
    \/ SubPoll

\* The pipeline over at most one grant and an empty table of results, with a
\* subscription that may be opened at any time.
InitStream ==
    /\ Init
    /\ Len(db_grants) <= MaxStreamGrants
    /\ db_results = <<>>

SpecStream == InitStream /\ [][NextStream]_vars

\* The run goes on as in SpecFair, and the generator is woken after each of
\* its sleeps.
SpecStreamFair == SpecStream /\ WF_vars(RunStep) /\ WF_vars(SubPoll)

(***************************************************************************)
(* refresh_status.py and scraper.py, scrape_and_refresh_grants with a job  *)
(* id: one step per write of the entry of the job, with the statements     *)
(* that precede it.                                                        *)
(***************************************************************************)
\* update_refresh_status: the phase is set, and of the other fields those
\* that are given; what the entry held before is kept.
Given(new, old) == IF new # NoneInt THEN new ELSE old

NoEntry ==
    [phase |-> "idle", total_found |-> NoneInt, current_grant |-> NoneInt,
     grants_saved |-> NoneInt, error |-> FALSE]

update_refresh_status(entry, phase, total_found, current_grant, grants_saved, error) ==
    LET status == IF entry = <<>> THEN NoEntry ELSE entry[1]
    IN <<[phase |-> phase,
          total_found |-> Given(total_found, status.total_found),
          current_grant |-> Given(current_grant, status.current_grant),
          grants_saved |-> Given(grants_saved, status.grants_saved),
          error |-> error \/ status.error]>>

\* complete_refresh: a new entry in place of the old one.
complete_refresh(total_found, grants_saved) ==
    <<[phase |-> "completed", total_found |-> total_found,
       current_grant |-> NoneInt, grants_saved |-> grants_saved,
       error |-> FALSE]>>

\* The write of the entry and the step of the job that makes it.
JobPublish(entry, next_pc) ==
    /\ refresh_status' = entry
    /\ job' = [job EXCEPT !.pc = next_pc,
                          !.phases = Append(job.phases, entry[1].phase)]

JobAt(where) == job.pc = where

\* POST /grants/refresh: the job is started with save_to_db = True; other
\* callers choose.  update_refresh_status(job_id, STARTING).
JobStart ==
    /\ JobAt("none")
    /\ \E save \in BOOLEAN :
          /\ refresh_status' = update_refresh_status(refresh_status, "starting",
                                    NoneInt, NoneInt, NoneInt, FALSE)
          /\ job' = [job EXCEPT !.pc = "starting", !.save_to_db = save,
                                !.phases = <<"starting">>]
    /\ UNCHANGED <<crawlVars, pipeVars, subVars, taskVars, loopVars>>

\* The browser is launched: update_refresh_status(job_id, NAVIGATING).
JobNavigate ==
    /\ JobAt("starting")
    /\ JobPublish(update_refresh_status(refresh_status, "navigating", NoneInt,
                                        NoneInt, NoneInt, FALSE), "navigating")
    /\ UNCHANGED <<crawlVars, pipeVars, subVars, taskVars, loopVars>>

\* The listing is loaded and filtered: update_refresh_status(job_id,
\* EXTRACTING_LINKS).
JobExtract ==
    /\ JobAt("navigating")
    /\ JobPublish(update_refresh_status(refresh_status, "extracting_links",
                                        NoneInt, NoneInt, NoneInt, FALSE),
                  "extracting_links")
    /\ UNCHANGED <<crawlVars, pipeVars, subVars, taskVars, loopVars>>

\* get_links has returned: update_refresh_status(job_id, SCRAPING_DETAILS,
\* total_found=len(grant_links)).
JobFound ==
    /\ JobAt("extracting_links")
    /\ \E n \in 0..MaxJobLinks :
          /\ refresh_status' = update_refresh_status(refresh_status,
                                    "scraping_details", n, NoneInt, NoneInt, FALSE)
          /\ job' = [job EXCEPT !.pc = "found", !.found = n,
                                !.phases = Append(job.phases, "scraping_details")]
    /\ UNCHANGED <<crawlVars, pipeVars, subVars, taskVars, loopVars>>

\* if save_to_db and grant_links: update_refresh_status(job_id, SAVING_TO_DB,
\* total_found=len(grant_links)), before save_grants_to_db is called.
JobSaving ==
    /\ JobAt("found")
    /\ job.save_to_db /\ job.found > 0
    /\ refresh_status' = update_refresh_status(refresh_status, "saving_to_db",
                              job.found, NoneInt, NoneInt, FALSE)
    /\ job' = [job EXCEPT !.pc = "details", !.idx = 1,
                          !.phases = Append(job.phases, "saving_to_db")]
    /\ UNCHANGED <<crawlVars, pipeVars, subVars, taskVars, loopVars>>

\* save_grants_to_db -> get_grant_details_as_models -> get_grant_details, one
\* turn of its loop: update_refresh_status(job_id, SCRAPING_DETAILS,
\* total_found, current_grant=idx); the page is then read, and a failure is
\* kept in the entry of the grant.
JobDetail ==
    /\ JobAt("details")
    /\ job.idx <= job.found
    /\ refresh_status' = update_refresh_status(refresh_status, "scraping_details",
                              job.found, job.idx, NoneInt, FALSE)
    /\ job' = [job EXCEPT !.idx = job.idx + 1,
                          !.phases = Append(job.phases, "scraping_details")]
    /\ UNCHANGED <<crawlVars, pipeVars, subVars, taskVars, loopVars>>

\* save_grants_to_db after the loop: update_refresh_status(job_id,
\* SAVING_TO_DB, total_found=len(grant_models), grants_saved=0).
JobSaveBegin ==
    /\ JobAt("details")
    /\ job.idx > job.found
    /\ JobPublish(update_refresh_status(refresh_status, "saving_to_db", job.found,
                                        NoneInt, 0, FALSE), "save_db")
    /\ UNCHANGED <<crawlVars, pipeVars, subVars, taskVars, loopVars>>

\* create_or_update_many_by_url has returned: update_refresh_status(job_id,
\* SAVING_TO_DB, grants_saved=len(saved_grants)).
JobSaveEnd ==
    /\ JobAt("save_db")
    /\ \E saved \in 1..job.found :
          /\ refresh_status' = update_refresh_status(refresh_status,
                                    "saving_to_db", NoneInt, NoneInt, saved, FALSE)
          /\ job' = [job EXCEPT !.pc = "closing", !.grants_saved = saved,
                                !.phases = Append(job.phases, "saving_to_db")]
    /\ UNCHANGED <<crawlVars, pipeVars, subVars, taskVars, loopVars>>

\* except Exception around save_grants_to_db: the error is kept in `errors`
\* and the job goes on.
JobSaveFails ==
    /\ job.pc \in {"details", "save_db"}
    /\ job' = [job EXCEPT !.pc = "closing", !.errors = job.errors + 1]
    /\ UNCHANGED refresh_status
    /\ UNCHANGED <<crawlVars, pipeVars, subVars, taskVars, loopVars>>

\* Nothing to save.
JobSkipSave ==
    /\ JobAt("found")
    /\ ~(job.save_to_db /\ job.found > 0)
    /\ job' = [job EXCEPT !.pc = "closing"]
    /\ UNCHANGED refresh_status
    /\ UNCHANGED <<crawlVars, pipeVars, subVars, taskVars, loopVars>>

\* browser.close(), complete_refresh(...).
JobComplete ==
    /\ JobAt("closing")
    /\ JobPublish(complete_refresh(job.found, job.grants_saved), "returning")
    /\ UNCHANGED <<crawlVars, pipeVars, subVars, taskVars, loopVars>>

\* return result: the with block of sync_playwright is left.
JobReturn ==
    /\ JobAt("returning")
    /\ job' = [job EXCEPT !.pc = "done"]
    /\ UNCHANGED refresh_status
    /\ UNCHANGED <<crawlVars, pipeVars, subVars, taskVars, loopVars>>

\* except Exception as e, of the try block of scrape_and_refresh_grants: any
\* statement of the block outside the inner try may raise, the exit of the
\* with block included.  update_refresh_status(job_id, ERROR, error=...).
JobRaise ==
    /\ job.pc \in {"starting", "navigating", "extracting_links", "found",
                   "closing", "returning"}
    /\ JobPublish(update_refresh_status(refresh_status, "error", NoneInt, NoneInt,
                                        NoneInt, TRUE), "done")
    /\ UNCHANGED <<crawlVars, pipeVars, subVars, taskVars, loopVars>>

NextJob ==
    \/ JobStart
    \/ JobNavigate
    \/ JobExtract
    \/ JobFound
    \/ JobSaving
    \/ JobDetail
    \/ JobSaveBegin
    \/ JobSaveEnd
    \/ JobSaveFails
    \/ JobSkipSave
    \/ JobComplete
    \/ JobReturn
    \/ JobRaise

InitJob ==
    /\ Init
    /\ db_grants = <<>>
    /\ db_results = <<>>
    /\ db_initiatives = {}

SpecJob == InitJob /\ [][NextJob]_vars

\* The job is scheduled until it returns.
SpecJobFair == SpecJob /\ WF_vars(NextJob)

(***************************************************************************)
(* The subscription against the status dictionary as its callers may write *)
(* it: update_status stores a status for the key, clear_status removes it. *)
(***************************************************************************)
\* The statuses written: one of each phase, two of Phase 1.
WrittenStatuses ==
    {[phase |-> "calculating", remaining_calls |-> r, total_grants |-> NoneInt,
      current_grant |-> NoneInt, error |-> NoError] : r \in 1..2}
    \cup {[phase |-> ph, remaining_calls |-> 1, total_grants |-> 1,
           current_grant |-> NoneInt, error |-> NoError] :
              ph \in {"deep_scraping", "analyzing"}}
    \cup {[phase |-> "completed", remaining_calls |-> 0, total_grants |-> 1,
           current_grant |-> NoneInt, error |-> NoError],
          [phase |-> "error", remaining_calls |-> NoneInt, total_grants |-> NoneInt,
           current_grant |-> NoneInt, error |-> ExceptionMessage]}

StatusWritten ==
    /\ \E st \in WrittenStatuses :
          pipeline_status' = update_status(pipeline_status, SubKey, st.phase,
                                           st.remaining_calls, st.total_grants,
                                           st.current_grant, st.error)
    /\ UNCHANGED <<dbVars, db_results, pc, initiative_id, threshold, grants, idx,
                   attempt, prelim_rating, filtered_grants, deep_scraped, all_links,
                   downloaded_files, gemini_result, runs, last_response, published,
                   called, slept, invocations, validated, failed_kinds,
                   p1_returned, p2_stored, scored>>
    /\ UNCHANGED <<crawlVars, subVars, taskVars, loopVars, jobVars>>

StatusCleared ==
    /\ pipeline_status' = clear_status(pipeline_status, SubKey)
    /\ UNCHANGED <<dbVars, db_results, pc, initiative_id, threshold, grants, idx,
                   attempt, prelim_rating, filtered_grants, deep_scraped, all_links,
                   downloaded_files, gemini_result, runs, last_response, published,
                   called, slept, invocations, validated, failed_kinds,
                   p1_returned, p2_stored, scored>>
    /\ UNCHANGED <<crawlVars, subVars, taskVars, loopVars, jobVars>>

NextSub ==
    \/ StatusWritten
    \/ StatusCleared
    \/ SubOpen
    \/ SubPoll

InitSub ==
    /\ Init
    /\ db_grants = <<>>
    /\ db_results = <<>>
    /\ db_initiatives = {}

SpecSub == InitSub /\ [][NextSub]_vars

(***************************************************************************)
(* routers/pipeline.py, filter_grants, and the threads it starts: each     *)
(* runs run_pipeline, here one step per write of the status dictionary,    *)
(* with the write of table results that precedes it.  The initiatives, the *)
(* organisation and the grants are there.                                  *)
(***************************************************************************)
TaskRatings == {DefaultRating, MaxRating}

Running(t) == tasks[t].pc \notin {"none", "done"}

At(t, where) == tasks[t].pc = where

Goto(t, where, i) == tasks' = [tasks EXCEPT ![t].pc = where, ![t].idx = i]

\* update_status called by a thread
TaskPublish(t, phase, remaining_calls, total_grants, current_grant, error) ==
    shared_status' = update_status(shared_status, tasks[t].initiative_id, phase,
                         remaining_calls, total_grants, current_grant, error)

\* POST /pipeline/filter-grants/{initiative_id}: clear_status, then
\* asyncio.create_task(asyncio.to_thread(run_pipeline, ...)), whatever the
\* threads started before are doing.
Trigger ==
    /\ \E t \in TaskIds, i \in TaskInitiatives :
          /\ At(t, "none")
          /\ \A u \in TaskIds : u < t => ~At(u, "none")
          /\ shared_status' = clear_status(shared_status, i)
          /\ tasks' = [tasks EXCEPT ![t] =
                          [initiative_id |-> i, pc |-> "start", idx |-> 0,
                           filtered |-> <<>>, rated |-> <<>>, stored |-> <<>>]]
    /\ UNCHANGED shared_results
    /\ UNCHANGED <<crawlVars, pipeVars, subVars, loopVars, jobVars>>

\* Steps 1 to 3 up to the loop: update_status(PHASE_1_CALCULATING).
TaskLoad ==
    /\ \E t \in TaskIds :
          /\ At(t, "start")
          /\ TaskPublish(t, "calculating", Len(TaskGrants), NoneInt, NoneInt, NoError)
          /\ Goto(t, "p1", 1)
    /\ UNCHANGED shared_results
    /\ UNCHANGED <<crawlVars, pipeVars, subVars, loopVars, jobVars>>

\* Phase 1, one grant: the rating, "Save/Update Result", update_status.
TaskPrelim ==
    /\ \E t \in TaskIds, rating \in TaskRatings :
          LET i == tasks[t].idx IN
          /\ At(t, "p1")
          /\ shared_results' = SavePrelim(shared_results, TaskGrants[i].id,
                                          tasks[t].initiative_id, rating)
          /\ TaskPublish(t, "calculating", Len(TaskGrants) - i, Len(TaskGrants), i,
                         NoError)
          /\ tasks' = [tasks EXCEPT
                          ![t].pc = IF i < Len(TaskGrants) THEN "p1" ELSE "filter",
                          ![t].idx = IF i < Len(TaskGrants) THEN i + 1 ELSE i,
                          ![t].rated = (TaskGrants[i].id :> rating) @@ @]
    /\ UNCHANGED <<crawlVars, pipeVars, subVars, loopVars, jobVars>>

\* Step 4 and the update_status that follows it.
TaskFilter ==
    /\ \E t \in TaskIds :
          LET filtered_results ==
                  get_filtered_by_rating(shared_results, tasks[t].initiative_id,
                                         RATING_THRESHOLD)
              filtered_grant_ids ==
                  {filtered_results[k].grant_id : k \in DOMAIN filtered_results}
          IN /\ At(t, "filter")
             /\ \E fg \in GrantAccess_get_by_ids(TaskGrants, filtered_grant_ids) :
                   /\ TaskPublish(t, PhaseAfterFilter(fg),
                                  IF fg = <<>> THEN 0 ELSE Len(fg),
                                  IF fg = <<>> THEN Len(TaskGrants) ELSE Len(fg),
                                  NoneInt, NoError)
                   /\ tasks' = [tasks EXCEPT
                                   ![t].pc = IF fg = <<>> THEN "done" ELSE "crawl",
                                   ![t].filtered = [k \in DOMAIN fg |-> fg[k].id]]
    /\ UNCHANGED shared_results
    /\ UNCHANGED <<crawlVars, pipeVars, subVars, loopVars, jobVars>>

\* Step 5 has returned: update_status(PHASE_2_ANALYZING).
TaskCrawled ==
    /\ \E t \in TaskIds :
          /\ At(t, "crawl")
          /\ TaskPublish(t, "analyzing", Len(tasks[t].filtered),
                         Len(tasks[t].filtered), NoneInt, NoError)
          /\ Goto(t, "p2", 1)
    /\ UNCHANGED shared_results
    /\ UNCHANGED <<crawlVars, pipeVars, subVars, loopVars, jobVars>>

\* Phase 2, one grant: the analysis, create_or_update, update_status.
TaskDetailed ==
    /\ \E t \in TaskIds, analysis \in DetailedResponses :
          LET i == tasks[t].idx
              init == tasks[t].initiative_id
              grant_id == tasks[t].filtered[i]
              k == ResultAccess_get_by_ids(shared_results, grant_id, init)
              prelim == IF k # 0 THEN shared_results[k].prelim_rating
                                 ELSE DefaultRating
          IN /\ At(t, "p2")
             /\ shared_results' =
                    create_or_update(shared_results,
                        gemini_to_sqlalchemy(analysis, grant_id, init, prelim))
             /\ TaskPublish(t, "analyzing", Len(tasks[t].filtered) - i,
                            Len(tasks[t].filtered), i, NoError)
             /\ tasks' = [tasks EXCEPT
                             ![t].pc = IF i < Len(tasks[t].filtered) THEN "p2"
                                                                     ELSE "complete",
                             ![t].idx = IF i < Len(tasks[t].filtered) THEN i + 1 ELSE i,
                             ![t].stored = (grant_id :> analysis) @@ @]
    /\ UNCHANGED <<crawlVars, pipeVars, subVars, loopVars, jobVars>>

\* Step 7.
TaskComplete ==
    /\ \E t \in TaskIds :
          /\ At(t, "complete")
          /\ TaskPublish(t, "completed", 0, Len(TaskGrants), NoneInt, NoError)
          /\ Goto(t, "done", tasks[t].idx)
    /\ UNCHANGED shared_results
    /\ UNCHANGED <<crawlVars, pipeVars, subVars, loopVars, jobVars>>

\* except Exception as e, in any thread at any statement.
TaskRaise ==
    /\ \E t \in TaskIds :
          /\ Running(t)
          /\ TaskPublish(t, "error", NoneInt, NoneInt, NoneInt, ExceptionMessage)
          /\ Goto(t, "done", tasks[t].idx)
    /\ UNCHANGED shared_results
    /\ UNCHANGED <<crawlVars, pipeVars, subVars, loopVars, jobVars>>

NextTasks ==
    \/ Trigger
    \/ TaskLoad
    \/ TaskPrelim
    \/ TaskFilter
    \/ TaskCrawled
    \/ TaskDetailed
    \/ TaskComplete
    \/ TaskRaise

\* The threads alone: the variables of the run followed statement by
\* statement stay at rest.
InitTasks ==
    /\ Init
    /\ db_grants = <<>>
    /\ db_initiatives = {}

SpecTasks == InitTasks /\ [][NextTasks]_vars


(***************************************************************************)
(* The crawler on its own: deep_scrape_grants over any grant of the site,  *)
(* or scrape_url_recursive called with a URL alone, for any max_depth.     *)
(***************************************************************************)
MaxDepths == (0..MaxDepthBound) \cup {NoDepthLimit}

GrantDict(url, links) ==
    [url |-> url, button_text |-> "button", card_body_text |-> "card",
     links |-> links]

InitCrawl ==
    /\ mode \in {"deep_scrape_grants", "scrape_url_recursive"}
    /\ max_depth \in MaxDepths
    /\ \E seed \in SiteUrls :
         IF mode = "deep_scrape_grants"
         THEN /\ \E ls \in LinkLists : grant_details = <<GrantDict(seed, ls)>>
              /\ cpc = "grant"
              /\ call = <<>>
              /\ base_domain = DomainOf(seed)
         ELSE /\ grant_details = <<>>
              /\ cpc = "enter"
              /\ call = <<[url |-> seed, current_depth |-> 0]>>
              /\ base_domain = DomainOf(seed)
    /\ grant_i = 1
    /\ link_i = 1
    /\ deep_content = <<>>
    /\ scrape_results = <<>>
    /\ visited_urls = {}
    /\ stack = <<>>
    /\ web = <<>>
    /\ fetch_log = <<>>
    /\ crawl_result = <<>>
    /\ db_initiatives = {}
    /\ db_organisations = {}
    /\ db_grants = <<>>
    /\ db_results = <<>>
    /\ scored = <<>>
    /\ PipelineAtRest
    /\ NoSubscription
    /\ NoTask
    /\ NoLoop
    /\ NoJob

SpecCrawl == InitCrawl /\ [][NextCrawl]_vars

\* The crawl is sequential code that keeps running as long as each page fetch
\* returns or fails.
SpecCrawlFair == SpecCrawl /\ WF_vars(NextCrawl)

(***************************************************************************)
(* The trees the crawl has returned so far, and their nodes.               *)
(***************************************************************************)
\* The nodes of a list of trees in preorder, each with its depth.
RECURSIVE NodesAt(_, _)
NodesAt(trees, depth) ==
    IF trees = <<>> THEN <<>>
    ELSE <<[node |-> Head(trees), depth |-> depth]>>
         \o NodesAt(Head(trees).nested_content, depth + 1)
         \o NodesAt(Tail(trees), depth)

Range(s) == {s[i] : i \in DOMAIN s}

\* Every tree a call of scrape_url_recursive at current_depth 0 has returned:
\* to a direct caller, to the grant being crawled, to the grants crawled before.
RECURSIVE DeepContentOf(_)
DeepContentOf(rs) ==
    IF rs = <<>> THEN <<>> ELSE Head(rs).deep_content \o DeepContentOf(Tail(rs))

ReturnedTrees == crawl_result \o deep_content \o DeepContentOf(scrape_results)

ReturnedNodes == Range(NodesAt(ReturnedTrees, 0))

CrawlDone == cpc = "done"

\* A link the loop of scrape_url_recursive would follow.
Followable(link_url) == SameDomain(link_url, base_domain) /\ IsHttp(link_url)

(***************************************************************************)
(* C6: in every tree scrape_url_recursive returns for a call at            *)
(* current_depth 0 with max_depth d, every node lies at depth <= d and a   *)
(* node at depth d has no nested_content, whatever links it reports; with  *)
(* d = 0 a tree is a single node.                                          *)
(***************************************************************************)
C6_DepthBound ==
    \A n \in ReturnedNodes :
        /\ n.depth <= max_depth
        /\ n.depth = max_depth => n.node.nested_content = <<>>

\* A finished crawl with max_depth >= 1 that returned a node at depth max_depth
\* reporting a link the loop would have followed.
C6_Witness ==
    /\ CrawlDone
    /\ max_depth \in 1..MaxDepthBound
    /\ \E n \in ReturnedNodes :
          /\ n.depth = max_depth
          /\ \E k \in DOMAIN n.node.links : Followable(n.node.links[k])

(***************************************************************************)
(* C7: within the crawl of one grant, no URL is given to the page twice,   *)
(* and of the nodes of one grant's trees that carry the same URL every one *)
(* after the first (in call order) is the already-visited leaf: no         *)
(* content, no links, no nested content.                                   *)
(***************************************************************************)
FetchedOnce(trees) ==
    LET ns == NodesAt(trees, 0)
    IN \A i, j \in DOMAIN ns :
          (i < j /\ ns[i].node.url = ns[j].node.url)
              => ns[j].node = VisitedNode(ns[j].node.url)

C7_FetchedOnce ==
    /\ NoDup(fetch_log)
    /\ FetchedOnce(crawl_result \o deep_content)
    /\ \A k \in DOMAIN scrape_results : FetchedOnce(scrape_results[k].deep_content)

\* A finished crawl in which a URL was met a second time.
C7_Witness ==
    /\ CrawlDone
    /\ \E n \in ReturnedNodes :
          /\ n.node.error = AlreadyVisitedError
          /\ n.node.url \in Range(fetch_log)

(***************************************************************************)
(* C8: every crawl ends, whatever the link graph (cycles and self-links    *)
(* included) and whatever max_depth, as long as each fetch returns or      *)
(* fails.                                                                  *)
(***************************************************************************)
C8_CrawlTerminates == <>CrawlDone

\* A finished crawl with no effective depth limit over a graph with a cycle:
\* a page that was fetched links to a page fetched before it.
C8_Witness ==
    /\ CrawlDone
    /\ max_depth = NoDepthLimit
    /\ \E i, j \in DOMAIN fetch_log :
          /\ i <= j
          /\ \E k \in DOMAIN web[fetch_log[j]].links :
                web[fetch_log[j]].links[k] = fetch_log[i]

(***************************************************************************)
(* C9: in the crawl of one grant no page outside the scheme and host of    *)
(* the grant's URL is fetched, the grant's own links included.             *)
(***************************************************************************)
C9_NoForeignFetch ==
    \A i \in DOMAIN fetch_log : DomainOf(fetch_log[i]) = base_domain

(***************************************************************************)
(* Properties of the pipeline.                                             *)
(***************************************************************************)
IdsOf(gs) == {gs[k].id : k \in DOMAIN gs}

\* The grants whose preliminary rating of this run is above the threshold.
Passing == {g \in DOMAIN p1_returned : p1_returned[g].rating > threshold}

RowsIn(rs, grant_id, init_id) ==
    {k \in DOMAIN rs : rs[k].grant_id = grant_id /\ rs[k].initiative_id = init_id}

RowsOf(grant_id, init_id) == RowsIn(db_results, grant_id, init_id)

PhaseRank(phase) ==
    CASE phase = "calculating" -> 1
      [] phase = "deep_scraping" -> 2
      [] phase = "analyzing" -> 3
      [] phase = "completed" -> 4
      [] OTHER -> 5

PhaseStepAllowed(a, b) ==
    \/ b = "error"
    \/ a # "error" /\ PhaseRank(b) \in {PhaseRank(a), PhaseRank(a) + 1}
    \/ a = "calculating" /\ b = "completed" /\ (pc # "idle" => Passing = {})

C2_PhasePath ==
    /\ published # <<>> => published[1] \in {"calculating", "error"}
    /\ \A i \in 1..(Len(published) - 1) :
           PhaseStepAllowed(published[i], published[i + 1])

\* Either the first run has published every phase in turn, or the last one
\* has skipped from calculating to completed.
C2_Witness ==
    \/ /\ published # <<>>
       /\ Last(published) = "completed"
       /\ \E i \in DOMAIN published : published[i] = "analyzing"
       /\ \E i \in DOMAIN published : published[i] = "deep_scraping"
       /\ published[1] = "calculating"
       /\ runs = 1
    \/ /\ runs = MaxRuns
       /\ Len(published) > 1
       /\ Last(published) = "completed"
       /\ published[Len(published) - 1] = "calculating"

(***************************************************************************)
(* C3: when every one of the MAX_RETRIES attempts for a grant fails,       *)
(* analyze_grant_preliminary returns 50 and publishes nothing; and, unless *)
(* a statement of the loop body raises, run_pipeline stores that 50 as the *)
(* grant's preliminary rating, publishes calculating and goes on to the    *)
(* next grant, or to the filter after the last one.                        *)
(***************************************************************************)
C3_FallbackStep ==
    /\ (pc = "p1_call" /\ attempt = MAX_RETRIES /\ invocations' = invocations + 1
            /\ validated' = validated)
          => /\ pc' = "p1_save"
             /\ prelim_rating' = DefaultRating
             /\ published' = published
    /\ (pc = "p1_save" /\ p1_returned[CurrentGrant.id].exhausted /\ pc' # "idle")
          => /\ \A k \in RowsIn(db_results', CurrentGrant.id, initiative_id) :
                    db_results'[k].prelim_rating = DefaultRating
             /\ RowsIn(db_results', CurrentGrant.id, initiative_id) # {}
             /\ Last(published') = "calculating"
             /\ IF idx < Len(grants)
                THEN pc' = "p1_call" /\ idx' = idx + 1
                ELSE pc' = "filter"

C3_Fallback == [][C3_FallbackStep]_vars

\* Every attempt for the first grant has failed, its row holds 50, no error
\* has been published and the run is at the second grant.
C3_Witness ==
    /\ pc = "p1_call"
    /\ idx = 2
    /\ p1_returned[grants[1].id].exhausted
    /\ \E k \in RowsOf(grants[1].id, initiative_id) :
           db_results[k].prelim_rating = DefaultRating
    /\ \A i \in DOMAIN published : published[i] # "error"

(***************************************************************************)
(* C4: a run sleeps rate_limit_sleep between any two successive external   *)
(* calls it makes: no call is made by a run that has called before and has *)
(* not slept since.                                                        *)
(***************************************************************************)
C4_SleepBetweenCalls ==
    [][(invocations' = invocations + 1 /\ called) => slept]_vars

(***************************************************************************)
(* C5: one scoring operation makes at least one and at most MAX_RETRIES    *)
(* external calls, none after the first whose response validates, and      *)
(* returns the value of that response.                                     *)
(***************************************************************************)
C5_RetryBound ==
    /\ invocations <= MAX_RETRIES
    /\ Len(validated) <= 1
    /\ pc \in {"p1_call", "p2_call"} => validated = <<>>
    /\ pc \in {"p1_save", "p2_save"} =>
          /\ invocations >= 1
          /\ validated # <<>> => validated[1].attempt = invocations
    /\ (pc = "p1_save" /\ validated # <<>>) => validated[1].value = <<prelim_rating>>
    /\ (pc = "p2_save" /\ validated # <<>>) => validated[1].value = gemini_result

\* Either a detailed analysis has returned the response of its third call, or
\* a preliminary one that of its last.
C5_Witness ==
    \/ pc = "p2_save" /\ invocations = 3 /\ validated # <<>>
          /\ gemini_result[1] \in DetailedResponses
    \/ pc = "p1_save" /\ invocations = MAX_RETRIES /\ validated # <<>>
          /\ runs = MaxRuns

(***************************************************************************)
(* C10: after any number of runs one after the other for an initiative,    *)
(* table results holds exactly one row for each (grant, initiative) that   *)
(* was rated, and its prelim_rating is the one Phase 1 of the latest run   *)
(* stored for that grant.                                                  *)
(***************************************************************************)
C10_OneRowPerKey ==
    \A g \in DOMAIN scored : \A i \in InitiativeIds :
        /\ Cardinality(RowsOf(g, i)) = 1
        /\ \A k \in RowsOf(g, i) : db_results[k].prelim_rating = Last(scored[g])

\* A run has ended that stored another rating than the run before it for a
\* grant, which that run had analysed in detail.
C10_Witness ==
    /\ pc = "idle"
    /\ runs = MaxRuns
    /\ \E g \in DOMAIN scored :
          /\ Len(scored[g]) = 2
          /\ scored[g][1] # scored[g][2]
          /\ \E k \in RowsOf(g, 1) : db_results[k].match_rating # NoneInt

(***************************************************************************)
(* C11: a run that starts with its initiative missing, its organisation    *)
(* missing or no grant in the table publishes error, with a message that   *)
(* tells which (and names the initiative id in the first two cases), as    *)
(* its first status, and returns: it makes no external call, fetches no    *)
(* page and writes no row of table results, and publishes nothing more     *)
(* unless leaving the session raises.                                      *)
(***************************************************************************)
PreconditionFails ==
    \/ initiative_id \notin db_initiatives
    \/ initiative_id \notin db_organisations
    \/ db_grants = <<>>

NothingDone ==
    /\ db_results' = db_results
    /\ ~called'
    /\ cpc' = "idle"
    /\ fetch_log' = <<>>

C11_PreconditionStep ==
    /\ (pc = "start" /\ PreconditionFails /\ pc' # "idle")
          => /\ pc' = "closing"
             /\ published' = <<"error">>
             /\ LET st == pipeline_status'[initiative_id][1] IN
                /\ st.phase = "error"
                /\ initiative_id \notin db_initiatives
                      => st.error.text = "Initiative {initiative_id} not found"
                         /\ st.error.id = initiative_id
                /\ (initiative_id \in db_initiatives
                       /\ initiative_id \notin db_organisations)
                      => st.error.text =
                             "Organization for initiative {initiative_id} not found"
                         /\ st.error.id = initiative_id
                /\ (initiative_id \in db_initiatives
                       /\ initiative_id \in db_organisations)
                      => st.error.text = "No grants found in database"
             /\ NothingDone
    /\ (pc = "closing" /\ published = <<"error">>)
          => /\ pc' = "idle"
             /\ NothingDone
             /\ \/ published' = published /\ pipeline_status' = pipeline_status
                \/ pipeline_status'[initiative_id][1].error = ExceptionMessage

Raises ==
    \/ pc \notin {"idle", "closing"} /\ pc' = "idle"
    \/ pc = "closing" /\ published' # published

C12_ExceptionStep ==
    /\ Raises
          => /\ published' = Append(published, "error")
             /\ pipeline_status'[initiative_id] =
                    <<[phase |-> "error", remaining_calls |-> NoneInt,
                       total_grants |-> NoneInt, current_grant |-> NoneInt,
                       error |-> ExceptionMessage]>>
             /\ pc' = "idle"
             /\ cpc' = "idle"
             /\ db_results' = db_results
             /\ \A g \in DOMAIN scored :
                   \E k \in RowsIn(db_results', g, initiative_id) :
                       db_results'[k].prelim_rating = Last(scored[g])
    /\ (pc = "idle" /\ pc' = "idle")
          => db_results' = db_results /\ invocations' = 0 /\ cpc' = "idle"

C12_ExceptionKeepsRows == [][C12_ExceptionStep]_vars

\* The first run has ended on an exception raised in Phase 2, after it had
\* written the preliminary ratings of two grants and one detailed analysis.
C12_Witness ==
    /\ pc = "idle"
    /\ runs = 1
    /\ published # <<>>
    /\ Last(published) = "error"
    /\ \E i \in DOMAIN published : published[i] = "analyzing"
    /\ Len(db_results) = 2
    /\ \E k \in DOMAIN db_results : db_results[k].match_rating # NoneInt
    /\ \A g \in DOMAIN scored :
          \E k \in RowsOf(g, 1) : db_results[k].prelim_rating = Last(scored[g])

(***************************************************************************)
(* C13: when no grant is rated above the threshold, the status the run     *)
(* publishes after the last one of Phase 1 is completed, and it returns:   *)
(* it publishes no deep_scraping or analyzing, fetches no page and makes   *)
(* no detailed call; error can follow only if leaving the session raises.  *)
(***************************************************************************)
NoPhase2 ==
    /\ cpc' = "idle"
    /\ fetch_log' = <<>>
    /\ web' = web
    /\ gemini_result' = <<>>
    /\ deep_scraped' = <<>>
    /\ db_results' = db_results

C13_NothingPassesStep ==
    /\ (pc = "filter" /\ Passing = {} /\ pc' # "idle")
          => /\ Last(published) = "calculating"
             /\ published' = Append(published, "completed")
             /\ pc' = "closing"
             /\ invocations' = invocations
             /\ NoPhase2
    /\ (pc = "closing" /\ Last(published) = "completed" /\ Passing = {})
          => /\ pc' = "idle"
             /\ NoPhase2
             /\ \/ published' = published
                \/ pipeline_status'[initiative_id][1].error = ExceptionMessage

Degraded(r) ==
    /\ r.match_rating = 0
    /\ r.uncertainty_rating = 100
    /\ r.grant_description = "Analysis error occurred after multiple retries"

C14_DegradeStep ==
    /\ (pc = "p2_call" /\ invocations' = invocations + 1)
          => /\ published' = published
             /\ db_results' = db_results
             /\ IF validated' # validated
                THEN /\ pc' = "p2_save"
                     /\ gemini_result' = validated'[1].value
                     /\ InRange(gemini_result'[1].match_rating)
                     /\ InRange(gemini_result'[1].uncertainty_rating)
                     /\ failed_kinds' = failed_kinds
                ELSE /\ failed_kinds' # {}
                     /\ IF attempt < MAX_RETRIES
                        THEN /\ pc' = "p2_call"
                             /\ attempt' = attempt + 1
                             /\ gemini_result' = gemini_result
                        ELSE /\ pc' = "p2_save"
                             /\ Degraded(gemini_result'[1])
    /\ (pc = "p2_save" /\ validated = <<>> /\ pc' # "idle")
          => /\ RowsIn(db_results', filtered_grants[idx].id, initiative_id) # {}
             /\ \A k \in RowsIn(db_results', filtered_grants[idx].id, initiative_id) :
                    /\ db_results'[k].match_rating = 0
                    /\ db_results'[k].uncertainty_rating = 100
                    /\ db_results'[k].explanations.uncertainty_rating =
                           "Unable to complete analysis due to repeated errors"
             /\ Last(published') = "analyzing"
             /\ IF idx < Len(filtered_grants)
                THEN pc' = "p2_prepare" /\ idx' = idx + 1
                ELSE pc' = "complete"

RatingsInRange ==
    /\ \A k \in DOMAIN db_results : InRange(db_results[k].prelim_rating)
    /\ \A g \in DOMAIN p1_returned : InRange(p1_returned[g].rating)
    /\ pc = "p1_save" => InRange(prelim_rating)

C15_PrelimStep ==
    /\ (pc = "p1_call" /\ invocations' = invocations + 1)
          => /\ published' = published
             /\ IF validated' # validated
                THEN LET raw == validated'[1].raw[1] IN
                     /\ pc' = "p1_save"
                     /\ raw < MinRating => prelim_rating' = MinRating
                     /\ raw > MaxRating => prelim_rating' = MaxRating
                     /\ InRange(raw) => prelim_rating' = raw
                ELSE IF attempt < MAX_RETRIES
                THEN pc' = "p1_call" /\ db_results' = db_results
                ELSE pc' = "p1_save" /\ prelim_rating' = DefaultRating
    /\ RatingsInRange'

TerminalPublished ==
    /\ published # <<>>
    /\ Last(published) \in {"completed", "error"}

C16_RunEnds == (pc = "start") ~> TerminalPublished

\* A run has published completed although every Phase 1 call for one of its
\* grants had failed.
C16_Witness ==
    /\ pc = "closing"
    /\ published # <<>>
    /\ Last(published) = "completed"
    /\ \E g \in DOMAIN p1_returned : p1_returned[g].exhausted

(***************************************************************************)
(* C17: the grants above the threshold are taken through Phase 2 (the      *)
(* crawl and the detailed analysis) in the relative order in which Phase 1 *)
(* went through them: of two grants of filtered_grants, the one that comes *)
(* first is the one that comes first in grants.                            *)
(***************************************************************************)
PositionIn(list, grant_id) == CHOOSE i \in DOMAIN list : list[i].id = grant_id

C17_PhaseTwoOrder ==
    pc \in {"crawl", "p2_prepare", "p2_call", "p2_save"}
        => \A i, j \in DOMAIN filtered_grants :
               i < j => PositionIn(grants, filtered_grants[i].id)
                            < PositionIn(grants, filtered_grants[j].id)

(***************************************************************************)
(* C18: for a grant above the threshold that has no link, the crawl        *)
(* fetches no page and returns the grant with an empty deep_content;       *)
(* Phase 2 then finds no link and downloads no file for it, and, unless a  *)
(* statement raises, still calls analyze_grant_detailed and stores what it *)
(* returns in the grant's row.                                             *)
(***************************************************************************)
C18_NoLinksStep ==
    /\ (/\ pc = "crawl" /\ cpc = "grant" /\ pc' = "crawl"
        /\ grant_i <= Len(grant_details)
        /\ grant_details[grant_i].links = <<>>)
          => /\ fetch_log' = fetch_log
             /\ web' = web
             /\ visited_urls' = visited_urls
             /\ Len(scrape_results') = Len(scrape_results) + 1
             /\ Last(scrape_results').url = grant_details[grant_i].url
             /\ Last(scrape_results').deep_content = <<>>
             /\ grant_i' = grant_i + 1
    /\ (pc = "p2_prepare" /\ filtered_grants[idx].links = <<>> /\ pc' # "idle")
          => /\ deep_scraped[idx].url = filtered_grants[idx].url
             /\ deep_scraped[idx].deep_content = <<>>
             /\ all_links' = <<>>
             /\ downloaded_files' = <<>>
             /\ pc' = "p2_call"
    /\ (pc = "p2_call" /\ filtered_grants[idx].links = <<>> /\ pc' # "idle")
          => invocations' = invocations + 1
    /\ (pc = "p2_save" /\ filtered_grants[idx].links = <<>> /\ pc' # "idle")
          => /\ RowsIn(db_results', filtered_grants[idx].id, initiative_id) # {}
             /\ \A k \in RowsIn(db_results', filtered_grants[idx].id, initiative_id) :
                    /\ db_results'[k].match_rating = gemini_result[1].match_rating
                    /\ db_results'[k].grant_description
                           = gemini_result[1].grant_description

C18_NoLinks == [][C18_NoLinksStep]_vars

\* The one grant above the threshold has no link: no page was fetched, no file
\* downloaded, and the response of the detailed call is in its row.
C18_Witness ==
    /\ pc = "complete"
    /\ Len(filtered_grants) = 1
    /\ filtered_grants[1].links = <<>>
    /\ deep_scraped[1].deep_content = <<>>
    /\ fetch_log = <<>>
    /\ downloaded_files = <<>>
    /\ invocations >= 1
    /\ \E k \in RowsOf(filtered_grants[1].id, initiative_id) :
           db_results[k].grant_description = "B"

(***************************************************************************)
(* C19: at each poll the subscription yields an event exactly when the     *)
(* status it reads differs from the one it read at the latest poll that    *)
(* yielded (from no status, before it has yielded any); so no two events   *)
(* in a row are for equal statuses.                                        *)
(***************************************************************************)
C19_PollStep ==
    poll_parity' # poll_parity
        => /\ emitted' <=> (get_status(pipeline_status, SubKey) # emitted_snapshot)
           /\ emitted' => /\ emitted_snapshot' = get_status(pipeline_status, SubKey)
                          /\ emitted_snapshot' # emitted_snapshot
                          /\ last_event' = <<EventOf(emitted_snapshot')>>
           /\ ~emitted' => UNCHANGED <<last_event, emitted_snapshot, sub_pc>>

C19_EmitOnChange == [][C19_PollStep]_vars

\* The subscription has yielded an event for one status, polled again without
\* yielding while the status stayed, and the status has changed since.
C19_Witness ==
    /\ sub_pc = "polling"
    /\ last_event # <<>>
    /\ last_event[1].status = "calculating"
    /\ ~emitted
    /\ get_status(pipeline_status, SubKey) # last_status

(***************************************************************************)
(* C20: once the status of the initiative is completed or error, a         *)
(* subscription that is open on it comes to its end; the last event of a   *)
(* subscription that has ended is the completed or error event of the      *)
(* status it read last, and it yields nothing further.                     *)
(***************************************************************************)
TerminalStatus ==
    /\ get_status(pipeline_status, SubKey) # <<>>
    /\ get_status(pipeline_status, SubKey)[1].phase \in {"completed", "error"}

C20_ClosedStep ==
    /\ sub_pc' = "closed"
          => /\ last_event' # <<>>
             /\ last_event'[1].status \in {"completed", "error"}
             /\ last_event'[1].status = emitted_snapshot'[1].phase
             /\ last_event'[1].error = emitted_snapshot'[1].error
    /\ sub_pc = "closed" => UNCHANGED subVars

C20_StreamEnds ==
    /\ (TerminalStatus /\ sub_pc = "polling") ~> (sub_pc = "closed")
    /\ [][C20_ClosedStep]_vars

\* A subscription that had yielded an event of the analysis under way has
\* ended with the completed event, after the run had returned.
C20_Witness ==
    /\ sub_pc = "closed"
    /\ last_status # <<>>
    /\ last_status[1].phase = "analyzing"
    /\ last_event # <<>>
    /\ last_event[1].status = "completed"
    /\ pc = "idle"

(***************************************************************************)
(* file_service.py: download_files_from_links, one iteration of its loop   *)
(* at a time, a download or a conversion failing or not as it may.         *)
(***************************************************************************)
MaxFileLinks == 3

FileGrantId == 1

FilePaths == {"doc.pdf", "Doc.PDF", "doc.docx", "doc.txt", "doc.zip", "p1"}

FileLinks == {Url("https", <<"grants", "gov">>, p) : p \in FilePaths}

\* Path(path).suffix.lower()
SuffixLower(path) ==
    CASE path \in {"doc.pdf", "Doc.PDF"} -> ".pdf"
      [] path = "doc.docx" -> ".docx"
      [] path = "doc.doc" -> ".doc"
      [] path = "doc.txt" -> ".txt"
      [] path = "doc.md" -> ".md"
      [] path = "doc.zip" -> ".zip"
      [] OTHER -> ""

\* if ext in [".pdf", ".docx", ".doc", ".txt", ".md"]
KnownExtensions == {".pdf", ".docx", ".doc", ".txt", ".md"}

\* What download_file and convert_docx_to_pdf return for one link.
DownloadOutcomes == [downloaded : BOOLEAN, converted : BOOLEAN]
NotTried == [downloaded |-> FALSE, converted |-> FALSE]

LocalFile(stem, grant_id, file_index, ext) ==
    [stem |-> stem, grant_id |-> grant_id, index |-> file_index, ext |-> ext]

NoFile == LocalFile(NoneVal, 0, 0, "")

\* A download whose failure goes unnoticed.
download_unchecked(url, grant_id, file_index, o) ==
    LocalFile("temp", grant_id, file_index, SuffixLower(url.path))

download_and_convert_file(url, grant_id, file_index, o) ==
    LET ext == IF SuffixLower(url.path) = "" THEN ".pdf" ELSE SuffixLower(url.path)
    IN IF ~o.downloaded THEN NoFile
       ELSE IF ext \in {".docx", ".doc"}
            THEN IF o.converted THEN LocalFile("grant", grant_id, file_index, ".pdf")
                                ELSE LocalFile("temp", grant_id, file_index, ext)
       ELSE IF ext = ".pdf" THEN LocalFile("grant", grant_id, file_index, ".pdf")
       ELSE IF ext \in {".txt", ".md"}
            THEN LocalFile("grant", grant_id, file_index, ".txt")
       ELSE LocalFile("temp", grant_id, file_index, ext)

\* downloaded_files = []; the loop is about to start
DffCall ==
    /\ dff.pc = "none"
    /\ \E links \in SeqsUpTo(FileLinks, MaxFileLinks) :
          dff' = [pc |-> "loop", links |-> links, idx |-> 0,
                  downloaded_files |-> <<>>, outcomes |-> <<>>]
    /\ UNCHANGED <<crawlVars, pipeVars, subVars, taskVars, ggd, jobVars>>

\* for idx, link in enumerate(links): one link
DffIter ==
    /\ dff.pc = "loop"
    /\ dff.idx < Len(dff.links)
    /\ LET link == dff.links[dff.idx + 1]
           ext == SuffixLower(link.path)
       IN \E o \in IF ext \in KnownExtensions THEN DownloadOutcomes ELSE {NotTried} :
             LET file_path == download_and_convert_file(link, FileGrantId, dff.idx, o)
             IN dff' = [dff EXCEPT
                           !.idx = @ + 1,
                           !.outcomes = Append(@, o),
                           !.downloaded_files =
                               IF ext \in KnownExtensions /\ file_path # NoFile
                               THEN Append(@, file_path) ELSE @]
    /\ UNCHANGED <<crawlVars, pipeVars, subVars, taskVars, ggd, jobVars>>

\* return downloaded_files
DffReturn ==
    /\ dff.pc = "loop"
    /\ dff.idx = Len(dff.links)
    /\ dff' = [dff EXCEPT !.pc = "returned"]
    /\ UNCHANGED <<crawlVars, pipeVars, subVars, taskVars, ggd, jobVars>>

NextFiles == DffCall \/ DffIter \/ DffReturn

InitFiles ==
    /\ Init
    /\ db_grants = <<>>
    /\ db_initiatives = {}

SpecFiles == InitFiles /\ [][NextFiles]_vars

(***************************************************************************)
(* scraper.py: get_grant_details, one iteration of its loop at a time, the *)
(* visit of a grant's page raising or not as it may.  No job_id is given.  *)
(***************************************************************************)
MaxGrantLinks == 3

\* grant_links: dictionaries with 'url' and 'button_text'
GrantLinkDicts == {[url |-> u, button_text |-> "View Details"] : u \in SiteUrls}

\* What the visit of a grant's page comes to: the card body with its links,
\* or an exception of page.goto or page.wait_for_selector.
VisitOutcomes ==
    {[raised |-> FALSE, links |-> ls] : ls \in {<<>>, <<Url("https", SiteHost, "p2")>>}}
    \cup {[raised |-> TRUE, links |-> <<>>]}

\* The entry appended in the try block.
ScrapedEntry(grant, use_text, o) ==
    IF use_text
    THEN [url |-> grant.url, button_text |-> grant.button_text,
          card_body_text |-> "card", links |-> o.links,
          issuer |-> "issuer", title |-> "title"]
    ELSE [url |-> grant.url, button_text |-> grant.button_text,
          card_body_html |-> "card", links |-> o.links,
          issuer |-> "", title |-> ""]

\* An entry for a failed visit that says nothing of the failure.
SilentEntry(grant, use_text) ==
    IF use_text
    THEN [url |-> grant.url, button_text |-> grant.button_text,
          card_body_text |-> NoneVal, links |-> <<>>, issuer |-> "", title |-> ""]
    ELSE [url |-> grant.url, button_text |-> grant.button_text,
          card_body_html |-> NoneVal, links |-> <<>>, issuer |-> "", title |-> ""]

\* The entry appended in the except block.
FailedEntry(grant, use_text) ==
    IF use_text
    THEN [url |-> grant.url, button_text |-> grant.button_text,
          card_body_text |-> NoneVal, links |-> <<>>, issuer |-> "", title |-> "",
          error |-> "str(e)"]
    ELSE [url |-> grant.url, button_text |-> grant.button_text,
          card_body_html |-> NoneVal, links |-> <<>>, issuer |-> "", title |-> "",
          error |-> "str(e)"]

\* grant_details = []; the loop is about to start
GgdCall ==
    /\ ggd.pc = "none"
    /\ \E grant_links \in SeqsUpTo(GrantLinkDicts, MaxGrantLinks), use_text \in BOOLEAN :
          ggd' = [pc |-> "loop", grant_links |-> grant_links, use_text |-> use_text,
                  idx |-> 0, grant_details |-> <<>>, outcomes |-> <<>>]
    /\ UNCHANGED <<crawlVars, pipeVars, subVars, taskVars, dff, jobVars>>

\* for idx, grant in enumerate(grant_links, start=1): one link
GgdIter ==
    /\ ggd.pc = "loop"
    /\ ggd.idx < Len(ggd.grant_links)
    /\ LET grant == ggd.grant_links[ggd.idx + 1]
       IN \E o \in VisitOutcomes :
             ggd' = [ggd EXCEPT
                        !.idx = @ + 1,
                        !.outcomes = Append(@, o),
                        !.grant_details =
                            Append(@, IF o.raised
                                      THEN FailedEntry(grant, ggd.use_text)
                                      ELSE ScrapedEntry(grant, ggd.use_text, o))]
    /\ UNCHANGED <<crawlVars, pipeVars, subVars, taskVars, dff, jobVars>>

\* return grant_details
GgdReturn ==
    /\ ggd.pc = "loop"
    /\ ggd.idx = Len(ggd.grant_links)
    /\ ggd' = [ggd EXCEPT !.pc = "returned"]
    /\ UNCHANGED <<crawlVars, pipeVars, subVars, taskVars, dff, jobVars>>

NextDetails == GgdCall \/ GgdIter \/ GgdReturn

InitDetails ==
    /\ Init
    /\ db_grants = <<>>
    /\ db_initiatives = {}

SpecDetails == InitDetails /\ [][NextDetails]_vars

(***************************************************************************)
(* C21: clearing the status of an initiative while a run for it is under   *)
(* way does not stop the run.  The step that clears leaves every running   *)
(* thread where it is and table results as it is, and every later step of  *)
(* the run writes the status of its initiative again.                      *)
(***************************************************************************)
Cleared(i) == shared_status[i] # <<>> /\ shared_status'[i] = <<>>

C21_ClearStep ==
    /\ \A i \in TaskInitiatives :
          Cleared(i) => /\ \A t \in TaskIds : Running(t) => tasks'[t] = tasks[t]
                        /\ shared_results' = shared_results
    /\ \A t \in TaskIds :
          (Running(t) /\ tasks'[t] # tasks[t])
              => shared_status'[tasks[t].initiative_id] # <<>>

C21_ClearKeepsRun == [][C21_ClearStep]_vars

\* The status of initiative 1 was cleared while the first run for it was in
\* Phase 1, by the request that started the second, which has published
\* nothing yet; the first run has since stored its ratings and published.
C21_Witness ==
    /\ tasks[1].initiative_id = 1
    /\ tasks[2].initiative_id = 1
    /\ tasks[2].pc = "start"
    /\ tasks[1].pc = "filter"
    /\ Len(shared_results) = Len(TaskGrants)
    /\ shared_status[1] # <<>>
    /\ shared_status[1][1].current_grant = Len(TaskGrants)

(***************************************************************************)
(* C22: at most one run per initiative is active at any time: no two       *)
(* threads that have been started and have not yet published completed or  *)
(* error work for the same initiative.                                     *)
(***************************************************************************)
C22_OneActiveRun ==
    \A t, u \in TaskIds :
        (t # u /\ Running(t) /\ Running(u))
            => tasks[t].initiative_id # tasks[u].initiative_id

(***************************************************************************)
(* C23: a step taken for initiative A, by the request that starts a run    *)
(* or by the run itself, changes only the status entry keyed A and only    *)
(* rows of table results whose initiative is A; the entry and the rows of  *)
(* every other initiative are as before, however the runs interleave.      *)
(***************************************************************************)
RowsOfInitiative(rs, init_id) == SelectSeq(rs, LAMBDA r : r.initiative_id = init_id)

C23_FrameStep ==
    \A t \in TaskIds :
        tasks'[t] # tasks[t]
            => \A b \in TaskInitiatives \ {tasks'[t].initiative_id} :
                  /\ shared_status'[b] = shared_status[b]
                  /\ RowsOfInitiative(shared_results', b) = RowsOfInitiative(shared_results, b)

C23_OwnInitiativeOnly == [][C23_FrameStep]_vars

\* Runs for initiatives 1 and 2 are both in Phase 2, each with its rows
\* stored and its status published.
C23_Witness ==
    /\ tasks[1].initiative_id = 1 /\ tasks[1].pc = "p2"
    /\ tasks[2].initiative_id = 2 /\ tasks[2].pc = "p2"
    /\ shared_status[1] # <<>> /\ shared_status[1][1].phase = "analyzing"
    /\ shared_status[2] # <<>> /\ shared_status[2][1].phase = "analyzing"
    /\ RowsOfInitiative(shared_results, 1) # <<>>
    /\ RowsOfInitiative(shared_results, 2) # <<>>

(***************************************************************************)
(* C24: download_files_from_links returns, in input order, one local file  *)
(* for each link whose path extension is a known document type and whose   *)
(* download succeeded; a link with another extension or a failed download  *)
(* contributes nothing, and the loop goes on to every later link.          *)
(***************************************************************************)
Kept(links, outcomes) ==
    {k \in DOMAIN outcomes :
        SuffixLower(links[k].path) \in KnownExtensions /\ outcomes[k].downloaded}

C24_PartialDownloads ==
    dff.pc \in {"loop", "returned"}
        => LET files == dff.downloaded_files
               kept == Kept(dff.links, dff.outcomes)
           IN /\ Len(dff.outcomes) = dff.idx
              /\ Len(files) = Cardinality(kept)
              /\ \A j \in DOMAIN files :
                    /\ files[j] # NoFile
                    /\ files[j].index + 1 \in kept
              /\ \A j, k \in DOMAIN files : j < k => files[j].index < files[k].index
              /\ dff.pc = "returned" => dff.idx = Len(dff.links)

\* Three links: a document whose download failed, an archive, and a text
\* file that was downloaded; the call returned the text file alone.
C24_Witness ==
    /\ dff.pc = "returned"
    /\ Len(dff.links) = MaxFileLinks
    /\ SuffixLower(dff.links[1].path) = ".pdf" /\ ~dff.outcomes[1].downloaded
    /\ SuffixLower(dff.links[2].path) = ".zip"
    /\ SuffixLower(dff.links[3].path) = ".txt" /\ dff.outcomes[3].downloaded
    /\ dff.downloaded_files = <<LocalFile("grant", FileGrantId, 2, ".txt")>>

(***************************************************************************)
(* C25: a page whose fetch timed out or whose navigation failed becomes a  *)
(* leaf node that carries the error text; nothing is raised.  In the trees *)
(* of a finished crawl every node above the depth limit has one nested     *)
(* node for each link its loop follows, in order, so the links after a     *)
(* failed page were crawled and the nodes above it were returned.          *)
(***************************************************************************)
UrlsOf(nodes) == [k \in DOMAIN nodes |-> nodes[k].url]

TimeoutLeaf(url) ==
    [url |-> url, content |-> NoneVal, links |-> <<>>, nested_content |-> <<>>,
     error |-> "Timeout"]

C25_FailedPageIsLeaf ==
    CrawlDone =>
        \A n \in ReturnedNodes :
            /\ n.node.error = "Timeout" => n.node = TimeoutLeaf(n.node.url)
            /\ n.depth < max_depth
                  => UrlsOf(n.node.nested_content) = SelectSeq(n.node.links, Followable)

\* A finished crawl with a node whose first followed link timed out and
\* whose second was crawled after it.
C25_Witness ==
    /\ CrawlDone
    /\ \E n \in ReturnedNodes :
          /\ n.node.error = NoneVal
          /\ Len(n.node.nested_content) = 2
          /\ n.node.nested_content[1].error = "Timeout"
          /\ n.node.nested_content[2].error = NoneVal
          /\ n.node.nested_content[2].content # NoneVal

(***************************************************************************)
(* C26: get_grant_details returns one entry per input link, in input       *)
(* order, each with the url of its link; a link whose page could not be    *)
(* scraped has an entry with an error field and no content, and the links  *)
(* after it are processed all the same.                                    *)
(***************************************************************************)
ContentOf(entry) ==
    IF "card_body_text" \in DOMAIN entry THEN entry.card_body_text
                                         ELSE entry.card_body_html

C26_OneEntryPerLink ==
    ggd.pc \in {"loop", "returned"}
        => /\ Len(ggd.grant_details) = ggd.idx
           /\ \A k \in DOMAIN ggd.grant_details :
                 LET entry == ggd.grant_details[k]
                 IN /\ entry.url = ggd.grant_links[k].url
                    /\ entry.button_text = ggd.grant_links[k].button_text
                    /\ ("card_body_text" \in DOMAIN entry) = ggd.use_text
                    /\ ("card_body_html" \in DOMAIN entry) = ~ggd.use_text
                    /\ IF ggd.outcomes[k].raised
                       THEN "error" \in DOMAIN entry /\ ContentOf(entry) = NoneVal
                       ELSE "error" \notin DOMAIN entry /\ ContentOf(entry) # NoneVal
           /\ ggd.pc = "returned" => ggd.idx = Len(ggd.grant_links)

\* Three links, the visit of the second raised: three entries were returned,
\* the second with the error, the third with content.
C26_Witness ==
    /\ ggd.pc = "returned"
    /\ Len(ggd.grant_details) = MaxGrantLinks
    /\ ~ggd.outcomes[1].raised
    /\ ggd.outcomes[2].raised
    /\ ~ggd.outcomes[3].raised
    /\ "error" \in DOMAIN ggd.grant_details[2]
    /\ ContentOf(ggd.grant_details[3]) # NoneVal

(***************************************************************************)
(* C27: the link list Phase 2 hands to download_files_from_links for a     *)
(* grant holds every link reported by any node of the grant's crawl tree,  *)
(* at every depth, besides the grant's own links.                          *)
(***************************************************************************)
C27_WholeTreeLinks ==
    pc = "p2_call"
        => \A n \in Range(NodesAt(deep_scraped[idx].deep_content, 0)) :
              Range(n.node.links) \subseteq Range(all_links)

(***************************************************************************)
(* C28: the Phase 2 write for a grant leaves its row with every detailed   *)
(* field equal to the value of the new analysis (description, criteria,    *)
(* amount, match and uncertainty rating, deadline, sources, explanations,  *)
(* sponsor name and sponsor description) and with the preliminary rating   *)
(* Phase 1 of this run stored for the grant.                               *)
(***************************************************************************)
AnalysisFieldsStored(row, a) ==
    /\ row.grant_description = a.grant_description
    /\ row.criteria = a.criteria
    /\ row.grant_amount = a.grant_amount
    /\ row.match_rating = a.match_rating
    /\ row.uncertainty_rating = a.uncertainty_rating
    /\ row.deadline = a.deadline
    /\ row.sources = a.sources
    /\ row.explanations = [match_rating |-> a.match_rating_explanation,
                           uncertainty_rating |-> a.uncertainty_rating_explanation]

SponsorFieldsStored(row, a) ==
    /\ row.sponsor_name = a.sponsor_name
    /\ row.sponsor_description = a.sponsor_description

C28_WriteStep ==
    (pc = "p2_save" /\ pc' # "idle")
        => LET grant == filtered_grants[idx]
               k == ResultAccess_get_by_ids(db_results', grant.id, initiative_id)
           IN /\ k # 0
              /\ AnalysisFieldsStored(db_results'[k], gemini_result[1])
              /\ SponsorFieldsStored(db_results'[k], gemini_result[1])
              /\ db_results'[k].prelim_rating = Last(scored[grant.id])

C28_DetailedOverwritten == [][C28_WriteStep]_vars

(***************************************************************************)
(* C29: the Phase 1 write for a grant that already has a row changes only  *)
(* the row's prelim_rating: every other column of it, and every other row, *)
(* is as before.  When the grant has no row, one is added with the keys    *)
(* and prelim_rating set and every other column NULL.                      *)
(***************************************************************************)
DetailedColumns == ResultColumns \ {"grant_id", "initiative_id", "prelim_rating"}

C29_WriteStep ==
    (pc = "p1_save" /\ pc' # "idle")
        => LET g == CurrentGrant.id
               k == ResultAccess_get_by_ids(db_results, g, initiative_id)
               n == Len(db_results)
           IN IF k # 0
              THEN /\ Len(db_results') = n
                   /\ \A j \in 1..n : j # k => db_results'[j] = db_results[j]
                   /\ \A col \in ResultColumns \ {"prelim_rating"} :
                         db_results'[k][col] = db_results[k][col]
                   /\ db_results'[k].prelim_rating = prelim_rating
              ELSE /\ Len(db_results') = n + 1
                   /\ \A j \in 1..n : db_results'[j] = db_results[j]
                   /\ db_results'[n + 1].grant_id = g
                   /\ db_results'[n + 1].initiative_id = initiative_id
                   /\ db_results'[n + 1].prelim_rating = prelim_rating
                   /\ \A col \in DetailedColumns :
                         db_results'[n + 1][col] = NullOf(col)

C29_PrelimOnly == [][C29_WriteStep]_vars

\* Phase 1 has stored another rating in a row that an earlier run had filled
\* with a detailed analysis, which is still there.
C29_Witness ==
    /\ pc \in {"p1_call", "filter"}
    /\ 1 \in DOMAIN scored
    /\ Len(scored[1]) = 2
    /\ scored[1][1] # scored[1][2]
    /\ \E k \in DOMAIN db_results :
          /\ db_results[k].grant_id = 1
          /\ db_results[k].prelim_rating = scored[1][2]
          /\ db_results[k].match_rating # NoneInt
          /\ db_results[k].grant_description # NoneVal

(***************************************************************************)
(* A run that nothing else interferes with: when it publishes completed,   *)
(* every grant it loaded at its start has a row whose prelim_rating is the *)
(* one Phase 1 of this run stored, and every loaded grant whose            *)
(* prelim_rating exceeds the threshold has been through the crawl and has  *)
(* the detailed analysis of this run in its row.                           *)
(***************************************************************************)
PublishesCompleted ==
    /\ pc # "idle"
    /\ pc' # "idle"
    /\ published' = Append(published, "completed")

RunHasDone(rows) ==
    \A j \in DOMAIN grants :
        LET g == grants[j]
            k == ResultAccess_get_by_ids(rows, g.id, initiative_id)
        IN /\ k # 0
           /\ g.id \in DOMAIN p1_returned
           /\ rows[k].prelim_rating = p1_returned[g.id].rating
           /\ rows[k].prelim_rating > threshold
                 => /\ \E d \in DOMAIN deep_scraped :
                          /\ deep_scraped[d].url = g.url
                          /\ "deep_content" \in DOMAIN deep_scraped[d]
                    /\ g.id \in DOMAIN p2_stored
                    /\ AnalysisFieldsStored(rows[k], p2_stored[g.id])

AloneCompletedStep == PublishesCompleted => RunHasDone(db_results')

AloneCompletedMeansDone == [][AloneCompletedStep]_vars

\* A run has published completed after analysing two grants whose rows an
\* earlier run had filled: both rows now hold this run's analysis, one of
\* them another analysis than before.
AloneCompletedWitness ==
    /\ pc = "closing"
    /\ published # <<>>
    /\ Last(published) = "completed"
    /\ Len(filtered_grants) = MaxGrants
    /\ Len(scored[1]) = 2
    /\ RunHasDone(db_results)
    /\ \E g \in DOMAIN p2_stored :
          p2_stored[g].grant_description # PriorRow(db_grants[1]).grant_description

(***************************************************************************)
(* C30: whenever a run publishes completed, every grant it loaded at its   *)
(* start has a row whose prelim_rating was written by this run, and every  *)
(* grant whose prelim_rating exceeds the threshold has been through the    *)
(* crawl of this run and has the detailed analysis written by this run in  *)
(* its row; stated for the runs as the threads that filter_grants starts.  *)
(***************************************************************************)
TaskPublishesCompleted(t) ==
    /\ Running(t)
    /\ tasks'[t] # tasks[t]
    /\ shared_status'[tasks[t].initiative_id] # <<>>
    /\ shared_status'[tasks[t].initiative_id][1].phase = "completed"

TaskHasDone(t, rows) ==
    \A j \in DOMAIN TaskGrants :
        LET g == TaskGrants[j].id
            k == ResultAccess_get_by_ids(rows, g, tasks[t].initiative_id)
        IN /\ k # 0
           /\ g \in DOMAIN tasks[t].rated
           /\ rows[k].prelim_rating = tasks[t].rated[g]
           /\ rows[k].prelim_rating > RATING_THRESHOLD
                 => /\ g \in Range(tasks[t].filtered)
                    /\ g \in DOMAIN tasks[t].stored
                    /\ AnalysisFieldsStored(rows[k], tasks[t].stored[g])

C30_CompletedStep ==
    \A t \in TaskIds : TaskPublishesCompleted(t) => TaskHasDone(t, shared_results')

C30_CompletedMeansDone == [][C30_CompletedStep]_vars

(***************************************************************************)
(* C31: deep_scrape_grants returns one result per grant it was given, in   *)
(* the order given, each with the fields of its grant as they were and a   *)
(* deep_content list added; and the crawl data Phase 2 pairs with a grant  *)
(* by position is the result of that grant.                                *)
(***************************************************************************)
ResultOfGrant(result, grant_dict) ==
    /\ DOMAIN result = DOMAIN grant_dict \cup {"deep_content"}
    /\ \A f \in DOMAIN grant_dict : result[f] = grant_dict[f]

C31_PairStep ==
    /\ (pc = "crawl" /\ pc' = "p2_prepare")
          => /\ Len(deep_scraped') = Len(filtered_grants)
             /\ \A k \in DOMAIN filtered_grants :
                   ResultOfGrant(deep_scraped'[k], GrantDictOf(filtered_grants[k]))
    /\ (pc = "p2_prepare" /\ pc' = "p2_call")
          => deep_scraped[idx].url = filtered_grants[idx].url

C31_ResultPerGrant == [][C31_PairStep]_vars

\* Phase 2 is at its second grant, which is grant 1 with its crawled links,
\* the first having been grant 2, which has none.
C31_Witness ==
    /\ pc = "p2_call"
    /\ idx = 2
    /\ filtered_grants[1].id = 2
    /\ filtered_grants[2].id = 1
    /\ deep_scraped[1].deep_content = <<>>
    /\ deep_scraped[2].deep_content # <<>>
    /\ deep_scraped[2].url = filtered_grants[2].url

(***************************************************************************)
(* C32: within Phase 1 and within the analysis of Phase 2 the published    *)
(* remaining count starts at the number of grants of the phase, is one     *)
(* less after each grant and 0 after the last; a status that carries       *)
(* current index, remaining and total has current + remaining = total.     *)
(***************************************************************************)
CountedPhases == {"calculating", "analyzing"}

SubjectsOf(phase) == IF phase = "calculating" THEN Len(grants') ELSE Len(filtered_grants')

C32_CountStep ==
    (pc' # "idle" /\ published' # published /\ Last(published') \in CountedPhases)
        => LET old == pipeline_status[initiative_id']
               new == pipeline_status'[initiative_id'][1]
               n == SubjectsOf(new.phase)
           IN IF new.current_grant = NoneInt
              THEN new.remaining_calls = n
              ELSE /\ new.total_grants = n
                   /\ new.current_grant + new.remaining_calls = new.total_grants
                   /\ old # <<>>
                   /\ old[1].phase = new.phase
                   /\ old[1].remaining_calls = new.remaining_calls + 1
                   /\ new.current_grant =
                          IF old[1].current_grant = NoneInt THEN 1
                          ELSE old[1].current_grant + 1
                   /\ new.current_grant = n => new.remaining_calls = 0

C32_RemainingCountsDown == [][C32_CountStep]_vars

\* The last of two grants has been analysed: current 2, remaining 0, total 2.
C32_Witness ==
    /\ pc = "complete"
    /\ Len(grants) = 2
    /\ Len(filtered_grants) = 2
    /\ pipeline_status[initiative_id] # <<>>
    /\ pipeline_status[initiative_id][1].phase = "analyzing"
    /\ pipeline_status[initiative_id][1].current_grant = 2
    /\ pipeline_status[initiative_id][1].remaining_calls = 0

(***************************************************************************)
(* A run started by filter_grants that nothing else interferes with: until *)
(* its first status the entry of its initiative is absent, and the first   *)
(* status after its preconditions is calculating with the number of        *)
(* grants.                                                                 *)
(***************************************************************************)
AloneStartStep ==
    (pc = "start" /\ last_response = "started")
        => /\ pipeline_status[initiative_id] = <<>>
           /\ (pc' = "p1_call")
                 => /\ pipeline_status'[initiative_id][1].phase = "calculating"
                    /\ pipeline_status'[initiative_id][1].remaining_calls = Len(db_grants)

AloneStartsCleared == [][AloneStartStep]_vars

(***************************************************************************)
(* C33: from the trigger of a run to the run's first status the entry of   *)
(* its initiative is absent, so that a poller sees idle and never the      *)
(* status of an earlier run; the first status the run publishes after its  *)
(* preconditions is calculating and carries the number of grants.  Stated  *)
(* for the runs as the threads that filter_grants starts.                  *)
(***************************************************************************)
C33_StartStep ==
    \A t \in TaskIds :
        At(t, "start")
            => /\ shared_status[tasks[t].initiative_id] = <<>>
               /\ (tasks'[t] # tasks[t] /\ tasks'[t].pc = "p1")
                     => /\ shared_status'[tasks[t].initiative_id][1].phase = "calculating"
                        /\ shared_status'[tasks[t].initiative_id][1].remaining_calls
                               = Len(TaskGrants)

C33_ClearedUntilFirstStatus == [][C33_StartStep]_vars

(***************************************************************************)
(* C34: no step of a run changes a field of a grant it holds, the list of  *)
(* links among them, and none changes a row of table grants.               *)
(***************************************************************************)
SameGrants(before, after) ==
    \A k \in DOMAIN before \cap DOMAIN after :
        before[k].id = after[k].id => before[k] = after[k]

C34_SubjectStep ==
    (pc # "idle" /\ pc' # "idle")
        => /\ db_grants' = db_grants
           /\ SameGrants(grants, grants')
           /\ SameGrants(filtered_grants, filtered_grants')

C34_SubjectsUnchanged == [][C34_SubjectStep]_vars

(***************************************************************************)
(* C35: a run that has published completed, on the path of the empty       *)
(* filter or at the end of Phase 2, publishes nothing after it and leaves  *)
(* the entry of its initiative as it is, whatever happens while its        *)
(* session is closed.                                                      *)
(***************************************************************************)
C35_FinalStep ==
    (pc # "idle" /\ published # <<>> /\ Last(published) = "completed")
        => /\ published' = published
           /\ pipeline_status' = pipeline_status

C35_CompletedIsFinal == [][C35_FinalStep]_vars

(***************************************************************************)
(* C36: the status of a run is never ahead of table results.  While the    *)
(* status says calculating with remaining r of N grants, the rows of the   *)
(* first N - r grants hold the ratings Phase 1 of this run returned; while *)
(* it says analyzing with current grant c, the rows of the first c         *)
(* filtered grants hold the analyses Phase 2 of this run stored.           *)
(***************************************************************************)
PrelimCommitted(grant) ==
    LET k == ResultAccess_get_by_ids(db_results, grant.id, initiative_id)
    IN /\ k # 0
       /\ grant.id \in DOMAIN p1_returned
       /\ db_results[k].prelim_rating = p1_returned[grant.id].rating

DetailedCommitted(grant) ==
    LET k == ResultAccess_get_by_ids(db_results, grant.id, initiative_id)
    IN /\ k # 0
       /\ grant.id \in DOMAIN p2_stored
       /\ AnalysisFieldsStored(db_results[k], p2_stored[grant.id])

C36_StatusBehindStore ==
    (pc # "idle" /\ pipeline_status[initiative_id] # <<>>)
        => LET st == pipeline_status[initiative_id][1] IN
           /\ st.phase = "calculating"
                 => \A k \in 1..(Len(grants) - st.remaining_calls) :
                        PrelimCommitted(grants[k])
           /\ (st.phase = "analyzing" /\ st.current_grant # NoneInt)
                 => \A k \in 1..st.current_grant :
                        DetailedCommitted(filtered_grants[k])

\* Both grants rated, both analysed, the second one's status just published.
C36_Witness ==
    /\ pc = "complete"
    /\ Len(grants) = 2
    /\ Len(filtered_grants) = 2
    /\ pipeline_status[initiative_id][1].phase = "analyzing"
    /\ pipeline_status[initiative_id][1].current_grant = 2
    /\ DetailedCommitted(filtered_grants[1])
    /\ DetailedCommitted(filtered_grants[2])
    /\ PrelimCommitted(grants[2])

\* Phase 1 half way: one of two grants rated and its status published.
C36_WitnessPhase1 ==
    /\ pc = "p1_call"
    /\ Len(grants) = 2
    /\ pipeline_status[initiative_id] # <<>>
    /\ pipeline_status[initiative_id][1].phase = "calculating"
    /\ pipeline_status[initiative_id][1].remaining_calls = 1
    /\ PrelimCommitted(grants[1])

(***************************************************************************)
(* C37: filter_grants for an initiative that does not exist answers 404    *)
(* and changes nothing: the status table is as it was, the entry of that   *)
(* key included, and no run is started.                                    *)
(***************************************************************************)
C37_RejectStep ==
    (last_response' = "404" /\ last_response # "404")
        => /\ pipeline_status' = pipeline_status
           /\ pc' = "idle"
           /\ runs' = runs
           /\ published' = published
           /\ db_results' = db_results

C37_RejectedChangesNothing == [][C37_RejectStep]_vars

\* The rejected key has an entry, left by a run_pipeline called for it, and
\* the entry is still there after the 404.
C37_Witness ==
    /\ last_response = "404"
    /\ pc = "idle"
    /\ runs = MaxRuns
    /\ \E i \in InitiativeIds :
          /\ i \notin db_initiatives
          /\ pipeline_status[i] # <<>>
          /\ pipeline_status[i][1].phase = "error"

(***************************************************************************)
(* C38: a subscription that has kept no status and finds no entry for its  *)
(* key yields nothing, poll after poll, until an entry is written; the     *)
(* idle event is yielded only at a poll that finds no entry while the      *)
(* subscription keeps a status it has yielded before.                      *)
(***************************************************************************)
C38_PollStep ==
    (sub_pc = "polling" /\ poll_parity' # poll_parity)
        => /\ (last_status = <<>> /\ get_status(pipeline_status, SubKey) = <<>>)
                 => /\ ~emitted'
                    /\ last_event' = last_event
           /\ (emitted' /\ last_event'[1].status = "idle")
                 => /\ last_status # <<>>
                    /\ get_status(pipeline_status, SubKey) = <<>>
                    /\ last_status' = <<>>

C38_IdleOnlyAfterSeen == [][C38_PollStep]_vars

\* The idle event has been yielded, and the poll after it, finding no entry
\* still, has yielded nothing.
C38_Witness ==
    /\ sub_pc = "polling"
    /\ last_event # <<>>
    /\ last_event[1].status = "idle"
    /\ ~emitted
    /\ last_status = <<>>
    /\ get_status(pipeline_status, SubKey) = <<>>

\* Opened with no entry: polls have passed and nothing has been yielded.
C38_WitnessSilent ==
    /\ sub_pc = "polling"
    /\ poll_parity = 1
    /\ last_event = <<>>
    /\ get_status(pipeline_status, SubKey) = <<>>

(***************************************************************************)
(* C39: the phase of the entry of a refresh job never moves backwards in   *)
(* the order starting, navigating, extracting_links, scraping_details,     *)
(* saving_to_db, completed, except that error may follow any phase; and    *)
(* the job ends with the entry at completed or error.                      *)
(***************************************************************************)
RefreshPhaseOrder ==
    <<"starting", "navigating", "extracting_links", "scraping_details",
      "saving_to_db", "completed">>

RefreshPhaseRank(phase) ==
    CHOOSE k \in DOMAIN RefreshPhaseOrder : RefreshPhaseOrder[k] = phase

C39_ForwardStep ==
    (refresh_status # <<>> /\ refresh_status' # refresh_status
                           /\ refresh_status'[1].phase # "error")
        => /\ refresh_status[1].phase # "error"
           /\ RefreshPhaseRank(refresh_status[1].phase)
                  <= RefreshPhaseRank(refresh_status'[1].phase)

C39_JobEnds ==
    JobAt("starting")
        ~> (JobAt("done") /\ refresh_status[1].phase \in {"completed", "error"})

C39_PhasesForwardAndEnd == [][C39_ForwardStep]_vars /\ C39_JobEnds

====
